---------------------------- MODULE Spec2Model ----------------------------
(***************************************************************************)
(* Model of the Visual SQL extension: the SQL parser (src/src/sqlParser.ts) *)
(* and the webview provider that edits the document                         *)
(* (src/src/sqlViewerProvider.ts).                                          *)
(*                                                                          *)
(* A text is a sequence of symbols.  A symbol is one character, or a run    *)
(* of letters that the code never looks inside of (a keyword, an            *)
(* identifier, the words true/false/null, the letters of a string value):   *)
(* every operation of the code on texts (trim, startsWith, slice, split,    *)
(* replace, the scanners) inspects quotes, commas, parentheses, digits,     *)
(* white space and comment markers one by one, and words only as wholes.    *)
(***************************************************************************)
EXTENDS Integers, Sequences, FiniteSets, TLC

VARIABLES
    doc,              \* text of the SQL document shown in the active editor
    currentDocument,  \* SQLViewerProvider._currentDocument: "none", "doc" or "other"
    lastSQLContent,   \* SQLViewerProvider._lastSQLContent
    view,             \* SQLViewerProvider._view is set
    hostQ,            \* messages posted by the webview, not yet received by the host
    webQ,             \* messages posted by the host to the webview
    pending,          \* replacements handed to applyEdit, not yet applied
    webview,          \* state of the SQLViewer component: loading, data
    last,             \* history: the message the host handled last, and what it did
    sent,             \* history: number of messages the webview has posted
    arg,              \* input of the function under study (function specifications)
    res,              \* its results so far
    pc                \* position in the pipeline of the function under study

vars == <<doc, currentDocument, lastSQLContent, view, hostQ, webQ, pending,
          webview, last, sent, arg, res, pc>>

hostVars == <<doc, currentDocument, lastSQLContent, view, hostQ, webQ, pending,
              webview, last, sent>>

funVars == <<arg, res, pc>>

-----------------------------------------------------------------------------
(* Texts                                                                    *)

Q == "'"

DQ == "\""

IsSpace(c) == c \in {" ", "\n"}

Digits == {"0", "1", "2", "3", "4", "5", "6", "7", "8", "9"}

DigitVal(c) ==
    CASE c = "0" -> 0 [] c = "1" -> 1 [] c = "2" -> 2 [] c = "3" -> 3
      [] c = "4" -> 4 [] c = "5" -> 5 [] c = "6" -> 6 [] c = "7" -> 7
      [] c = "8" -> 8 [] c = "9" -> 9

DigitSym(d) ==
    CASE d = 0 -> "0" [] d = 1 -> "1" [] d = 2 -> "2" [] d = 3 -> "3"
      [] d = 4 -> "4" [] d = 5 -> "5" [] d = 6 -> "6" [] d = 7 -> "7"
      [] d = 8 -> "8" [] d = 9 -> "9"

\* String.prototype.toLowerCase, symbol by symbol
LowerSym(c) ==
    CASE c = "TRUE" -> "true" [] c = "FALSE" -> "false" [] c = "NULL" -> "null"
      [] c = "Al" -> "al" [] c = "O" -> "o" [] c = "Brien" -> "brien"
      [] OTHER -> c

\* String.prototype.toUpperCase, symbol by symbol
UpperSym(c) ==
    CASE c = "true" -> "TRUE" [] c = "false" -> "FALSE" [] c = "null" -> "NULL"
      [] c = "Al" -> "AL" [] c = "O" -> "O" [] c = "Brien" -> "BRIEN"
      [] c = "x" -> "X" [] c = "y" -> "Y"
      [] OTHER -> c

toLowerCase(s) == [i \in 1..Len(s) |-> LowerSym(s[i])]

toUpperCase(s) == [i \in 1..Len(s) |-> UpperSym(s[i])]

\* String.prototype.slice(from, to) with 0-based from and exclusive to
Slice(s, from, to) == SubSeq(s, from + 1, to)

RECURSIVE TrimStart(_)
TrimStart(s) ==
    IF s # <<>> /\ IsSpace(Head(s)) THEN TrimStart(Tail(s)) ELSE s

RECURSIVE TrimEnd(_)
TrimEnd(s) ==
    IF s # <<>> /\ IsSpace(s[Len(s)]) THEN TrimEnd(SubSeq(s, 1, Len(s) - 1)) ELSE s

\* String.prototype.trim
trim(s) == TrimEnd(TrimStart(s))

startsWith(s, c) == Len(s) >= 1 /\ s[1] = c

endsWith(s, c) == Len(s) >= 1 /\ s[Len(s)] = c

RECURSIVE Join(_, _)
\* Array.prototype.join: the texts of parts with sep between consecutive ones
Join(parts, sep) ==
    IF parts = <<>> THEN <<>>
    ELSE IF Len(parts) = 1 THEN parts[1]
    ELSE parts[1] \o sep \o Join(Tail(parts), sep)

RECURSIVE SplitOn(_, _, _)
\* String.prototype.split on a one-symbol separator; cur is the piece so far
SplitOn(s, sep, cur) ==
    IF s = <<>> THEN <<cur>>
    ELSE IF Head(s) = sep THEN <<cur>> \o SplitOn(Tail(s), sep, <<>>)
    ELSE SplitOn(Tail(s), sep, Append(cur, Head(s)))

split(s, sep) == SplitOn(s, sep, <<>>)

RECURSIVE NonEmptyOnes(_)
\* Array.prototype.filter(x => x) on texts, and filter(row => row.length > 0)
NonEmptyOnes(seq) ==
    IF seq = <<>> THEN <<>>
    ELSE (IF Head(seq) # <<>> THEN <<Head(seq)>> ELSE <<>>) \o NonEmptyOnes(Tail(seq))

RECURSIVE NonBlankOnes(_)
\* Array.prototype.filter(line => line.trim())
NonBlankOnes(seq) ==
    IF seq = <<>> THEN <<>>
    ELSE (IF trim(Head(seq)) # <<>> THEN <<Head(seq)>> ELSE <<>>)
         \o NonBlankOnes(Tail(seq))

-----------------------------------------------------------------------------
(* JavaScript numbers, as far as the texts of the model can spell them:     *)
(* Number(text) is a number for an optional minus sign followed by digits   *)
(* (surrounding white space ignored, the empty text being 0), NaN otherwise *)

IsDigits(s) == Len(s) >= 1 /\ \A i \in 1..Len(s) : s[i] \in Digits

\* !isNaN(Number(s))
IsNumber(s) ==
    LET t == trim(s) IN
       \/ t = <<>>
       \/ IsDigits(t)
       \/ (Len(t) >= 2 /\ t[1] = "-" /\ IsDigits(Tail(t)))

RECURSIVE DigitsVal(_, _)
DigitsVal(s, acc) ==
    IF s = <<>> THEN acc ELSE DigitsVal(Tail(s), 10 * acc + DigitVal(Head(s)))

\* Number(s) for a text with IsNumber(s)
Number(s) ==
    LET t == trim(s) IN
       IF t = <<>> THEN 0
       ELSE IF t[1] = "-" THEN 0 - DigitsVal(Tail(t), 0)
       ELSE DigitsVal(t, 0)

RECURSIVE NatText(_)
NatText(n) ==
    IF n < 10 THEN <<DigitSym(n)>> ELSE Append(NatText(n \div 10), DigitSym(n % 10))

\* String(n) for an integer n
NumText(n) == IF n < 0 THEN <<"-">> \o NatText(0 - n) ELSE NatText(n)

-----------------------------------------------------------------------------
(* Scalar values of a row: the JavaScript values null, a boolean, a number  *)
(* or a string, told apart by k                                             *)

Null == [k |-> "null", b |-> FALSE, n |-> 0, s |-> <<>>]

Bool(x) == [k |-> "bool", b |-> x, n |-> 0, s |-> <<>>]

Num(x) == [k |-> "num", b |-> FALSE, n |-> x, s |-> <<>>]

Str(x) == [k |-> "str", b |-> FALSE, n |-> 0, s |-> x]

\* String(val)
JSString(val) ==
    CASE val.k = "null" -> <<"null">>
      [] val.k = "bool" -> IF val.b THEN <<"true">> ELSE <<"false">>
      [] val.k = "num" -> NumText(val.n)
      [] val.k = "str" -> val.s

RECURSIVE EscapeQuotes(_)
\* strVal.replace(/'/g, "''")
EscapeQuotes(s) ==
    IF s = <<>> THEN <<>>
    ELSE (IF Head(s) = Q THEN <<Q, Q>> ELSE <<Head(s)>>) \o EscapeQuotes(Tail(s))

\* _formatSQLValue that emits the texts true and false as they are written
_formatSQLValue_KeepCase(val) ==
    IF val.k = "null" THEN <<"NULL">>
    ELSE LET strVal == trim(JSString(val)) IN
        IF \/ (startsWith(strVal, Q) /\ endsWith(strVal, Q))
           \/ (startsWith(strVal, DQ) /\ endsWith(strVal, DQ))
        THEN IF startsWith(strVal, DQ) /\ endsWith(strVal, DQ)
             THEN <<Q>> \o Slice(strVal, 1, Len(strVal) - 1) \o <<Q>>
             ELSE strVal
        ELSE IF toLowerCase(strVal) = <<"null">> THEN <<"NULL">>
        ELSE IF toLowerCase(strVal) = <<"true">> \/ toLowerCase(strVal) = <<"false">>
             THEN strVal
        ELSE IF IsNumber(strVal) /\ strVal # <<>> THEN strVal
        ELSE <<Q>> \o EscapeQuotes(strVal) \o <<Q>>

\* _formatSQLValue without the branch that emits numeric text unquoted
_formatSQLValue_QuoteNumbers(val) ==
    IF val.k = "null" THEN <<"NULL">>
    ELSE LET strVal == trim(JSString(val)) IN
        IF \/ (startsWith(strVal, Q) /\ endsWith(strVal, Q))
           \/ (startsWith(strVal, DQ) /\ endsWith(strVal, DQ))
        THEN IF startsWith(strVal, DQ) /\ endsWith(strVal, DQ)
             THEN <<Q>> \o Slice(strVal, 1, Len(strVal) - 1) \o <<Q>>
             ELSE strVal
        ELSE IF toLowerCase(strVal) = <<"null">> THEN <<"NULL">>
        ELSE IF toLowerCase(strVal) = <<"true">> \/ toLowerCase(strVal) = <<"false">>
             THEN toUpperCase(strVal)
        ELSE <<Q>> \o EscapeQuotes(strVal) \o <<Q>>

_formatSQLValue(val) ==
    IF val.k = "null" THEN <<"NULL">>
    ELSE LET strVal == trim(JSString(val)) IN
        IF \/ (startsWith(strVal, Q) /\ endsWith(strVal, Q))
           \/ (startsWith(strVal, DQ) /\ endsWith(strVal, DQ))
        THEN IF startsWith(strVal, DQ) /\ endsWith(strVal, DQ)
             THEN <<Q>> \o Slice(strVal, 1, Len(strVal) - 1) \o <<Q>>
             ELSE strVal
        ELSE IF toLowerCase(strVal) = <<"null">> THEN <<"NULL">>
        ELSE IF toLowerCase(strVal) = <<"true">> \/ toLowerCase(strVal) = <<"false">>
             THEN toUpperCase(strVal)
        ELSE IF IsNumber(strVal) /\ strVal # <<>> THEN strVal
        ELSE <<Q>> \o EscapeQuotes(strVal) \o <<Q>>

cleanValue(value) ==
    IF value = <<>> THEN Str(<<>>)
    ELSE IF \/ (startsWith(value, Q) /\ endsWith(value, Q))
            \/ (startsWith(value, DQ) /\ endsWith(value, DQ))
         THEN Str(Slice(value, 1, Len(value) - 1))
    ELSE IF toLowerCase(value) = <<"true">> THEN Bool(TRUE)
    ELSE IF toLowerCase(value) = <<"false">> THEN Bool(FALSE)
    ELSE IF IsNumber(value) /\ trim(value) # <<>> THEN Num(Number(value))
    ELSE IF toUpperCase(value) = <<"NULL">> THEN Null
    ELSE Str(value)

-----------------------------------------------------------------------------
(* The fallback lexical parser (sqlParser.ts, 372-547)                      *)

RECURSIVE PadRow(_, _)
\* while (paddedRow.length < expectedColumnCount) paddedRow.push('')
PadRow(row, n) == IF Len(row) < n THEN PadRow(Append(row, Str(<<>>)), n) ELSE row

\* validateAndFixInsertData with the padding loop left out
validateAndFixInsertData_NoPad(columns, values) ==
    LET expectedColumnCount == Len(columns)
        fix(row) ==
            IF Len(row) > expectedColumnCount
            THEN Slice(row, 0, expectedColumnCount)
            ELSE row
    IN [i \in 1..Len(values) |-> fix(values[i])]

\* validateAndFixInsertData with row.slice(-expectedColumnCount) for the cut
validateAndFixInsertData_KeepLast(columns, values) ==
    LET expectedColumnCount == Len(columns)
        fix(row) ==
            IF Len(row) = expectedColumnCount THEN row
            ELSE IF Len(row) > expectedColumnCount
                 THEN SubSeq(row, Len(row) - expectedColumnCount + 1, Len(row))
            ELSE PadRow(row, expectedColumnCount)
    IN [i \in 1..Len(values) |-> fix(values[i])]

validateAndFixInsertData(columns, values) ==
    LET expectedColumnCount == Len(columns)
        fix(row) ==
            IF Len(row) = expectedColumnCount THEN row
            ELSE IF Len(row) > expectedColumnCount
                 THEN Slice(row, 0, expectedColumnCount)
            ELSE PadRow(row, expectedColumnCount)
    IN [i \in 1..Len(values) |-> fix(values[i])]

RECURSIVE SplitScan(_, _, _, _, _, _)
\* the while loop of splitValueString; i is the 1-based position of char
SplitScan(valueStr, i, inString, stringChar, currentValue, values) ==
    IF i > Len(valueStr)
    THEN IF trim(currentValue) # <<>>
         THEN Append(values, cleanValue(trim(currentValue)))
         ELSE values
    ELSE LET char == valueStr[i] IN
        IF ~inString
        THEN IF char = Q \/ char = DQ
             THEN SplitScan(valueStr, i + 1, TRUE, char, Append(currentValue, char), values)
             ELSE IF char = ","
             THEN SplitScan(valueStr, i + 1, FALSE, stringChar, <<>>,
                            Append(values, cleanValue(trim(currentValue))))
             ELSE SplitScan(valueStr, i + 1, FALSE, stringChar,
                            Append(currentValue, char), values)
        ELSE IF char = stringChar
             THEN IF i + 1 <= Len(valueStr) /\ valueStr[i + 1] = stringChar
                  THEN SplitScan(valueStr, i + 2, TRUE, stringChar,
                                 currentValue \o <<char, valueStr[i + 1]>>, values)
                  ELSE SplitScan(valueStr, i + 1, FALSE, "",
                                 Append(currentValue, char), values)
             ELSE SplitScan(valueStr, i + 1, TRUE, stringChar,
                            Append(currentValue, char), values)

splitValueString(valueStr) == SplitScan(valueStr, 1, FALSE, "", <<>>, <<>>)

\* the least q >= p with s[q] = c, or 0
IndexFrom(s, c, p) ==
    IF \E q \in p..Len(s) : s[q] = c
    THEN CHOOSE q \in p..Len(s) : s[q] = c /\ \A r \in p..(q - 1) : s[r] # c
    ELSE 0

RECURSIVE RowMatches(_, _)
\* valuesStr.match(/\([^)]+\)/g): the matches that start at position p or later
RowMatches(s, p) ==
    IF p > Len(s) THEN <<>>
    ELSE IF s[p] = "("
    THEN LET close == IndexFrom(s, ")", p + 1) IN
         IF close = 0 THEN <<>>
         ELSE IF close = p + 1 THEN RowMatches(s, p + 1)
         ELSE <<SubSeq(s, p, close)>> \o RowMatches(s, close + 1)
    ELSE RowMatches(s, p + 1)

extractValuesFromString(valuesStr) ==
    LET rowMatches == RowMatches(valuesStr, 1) IN
      [i \in 1..Len(rowMatches) |->
          splitValueString(Slice(rowMatches[i], 1, Len(rowMatches[i]) - 1))]

Punct == {Q, DQ, ",", "(", ")", ";", " ", "\n", "=", ">", "-", "/", "*", "."}

\* \w: a letter, a digit or an underscore
IsWordChar(c) == c \notin Punct

\* the position after the white space that starts at p (\s*)
RECURSIVE SkipSpace(_, _)
SkipSpace(s, p) == IF p <= Len(s) /\ IsSpace(s[p]) THEN SkipSpace(s, p + 1) ELSE p

\* the position after the word characters that start at p (\w*)
RECURSIVE SkipWord(_, _)
SkipWord(s, p) == IF p <= Len(s) /\ IsWordChar(s[p]) THEN SkipWord(s, p + 1) ELSE p

NoMatch == [ok |-> FALSE, table |-> <<>>, columnsStr |-> <<>>, valuesStr |-> <<>>]

\* /INSERT\s+INTO\s+(\w+)\s*\(([^)]+)\)\s*VALUES\s*(.+)/is tried at position i
InsertMatchAt(s, i) ==
    LET p1 == SkipSpace(s, i + 1)                  \* after INSERT\s+
        p2 == SkipSpace(s, p1 + 1)                 \* after INTO\s+
        p3 == SkipWord(s, p2)                      \* after (\w+)
        p4 == SkipSpace(s, p3)                     \* at the opening parenthesis
        close == IndexFrom(s, ")", p4 + 1)
        p5 == SkipSpace(s, close + 1)              \* at VALUES
        p6 == SkipSpace(s, p5 + 1)                 \* \s* is greedy, (.+) needs a symbol
        from == IF p6 > Len(s) THEN Len(s) ELSE p6
    IN IF /\ s[i] = "INSERT" /\ p1 > i + 1
          /\ p1 <= Len(s) /\ s[p1] = "INTO" /\ p2 > p1 + 1
          /\ p3 > p2
          /\ p4 <= Len(s) /\ s[p4] = "("
          /\ close > p4 + 1
          /\ p5 <= Len(s) /\ s[p5] = "VALUES"
          /\ p5 < Len(s)
       THEN [ok |-> TRUE, table |-> SubSeq(s, p2, p3 - 1),
             columnsStr |-> SubSeq(s, p4 + 1, close - 1),
             valuesStr |-> SubSeq(s, from, Len(s))]
       ELSE NoMatch

RECURSIVE InsertMatchFrom(_, _)
\* statement.match(...): the leftmost match
InsertMatchFrom(s, i) ==
    IF i > Len(s) THEN NoMatch
    ELSE IF InsertMatchAt(s, i).ok THEN InsertMatchAt(s, i)
    ELSE InsertMatchFrom(s, i + 1)

RECURSIVE RemoveQuotes(_)
\* replace(/['"]/g, '')
RemoveQuotes(s) ==
    IF s = <<>> THEN <<>>
    ELSE (IF Head(s) = Q \/ Head(s) = DQ THEN <<>> ELSE <<Head(s)>>)
         \o RemoveQuotes(Tail(s))

\* col.trim().replace(/['"]/g, '')
CleanColumn(col) == RemoveQuotes(trim(col))

NoStatement == [type |-> "none", tableName |-> <<>>, columns |-> <<>>,
                values |-> <<>>, data |-> <<>>, where |-> <<>>]

handleColumnCountMismatchError(statement) ==
    LET insertMatch == InsertMatchFrom(statement, 1) IN
      IF ~insertMatch.ok THEN NoStatement
      ELSE LET parts == split(insertMatch.columnsStr, ",")
               columns == [i \in 1..Len(parts) |-> CleanColumn(parts[i])]
               values == extractValuesFromString(insertMatch.valuesStr)
           IN [type |-> "insert", tableName |-> insertMatch.table,
               columns |-> columns,
               values |-> validateAndFixInsertData(columns, values),
               data |-> <<>>, where |-> <<>>]

-----------------------------------------------------------------------------
(* The statement splitter (sqlParser.ts, 72-99)                             *)

\* the least e >= p with s[e] = "*" and s[e + 1] = "/", or 0
BlockEnd(s, p) ==
    LET ends == {e \in p..(Len(s) - 1) : s[e] = "*" /\ s[e + 1] = "/"} IN
      IF ends = {} THEN 0 ELSE CHOOSE e \in ends : \A f \in ends : e <= f

RECURSIVE RemoveBlockComments(_)
\* sql.replace(/\/\*[\s\S]*?\*\//g, '')
RemoveBlockComments(s) ==
    IF s = <<>> THEN <<>>
    ELSE IF Len(s) >= 2 /\ s[1] = "/" /\ s[2] = "*" /\ BlockEnd(s, 3) # 0
         THEN RemoveBlockComments(SubSeq(s, BlockEnd(s, 3) + 2, Len(s)))
    ELSE <<Head(s)>> \o RemoveBlockComments(Tail(s))

\* line.indexOf('--') as a 1-based position, or 0
CommentIndex(line) ==
    LET at == {i \in 1..(Len(line) - 1) : line[i] = "-" /\ line[i + 1] = "-"} IN
      IF at = {} THEN 0 ELSE CHOOSE i \in at : \A j \in at : i <= j

\* a map that keeps the line as it is
RemoveLineComment_Keep(line) == line

RemoveLineComment(line) ==
    IF CommentIndex(line) # 0 THEN SubSeq(line, 1, CommentIndex(line) - 1) ELSE line

splitSQLStatements(sql) ==
    LET lines == split(RemoveBlockComments(sql), "\n")
        cleanedLines == NonBlankOnes([i \in 1..Len(lines) |-> RemoveLineComment(lines[i])])
        cleanedSQL == Join(cleanedLines, <<"\n">>)
        pieces == split(cleanedSQL, ";")
    IN NonEmptyOnes([i \in 1..Len(pieces) |-> trim(pieces[i])])

-----------------------------------------------------------------------------
(* The AST adapter: Parser.astify of node-sql-parser, which the repository  *)
(* calls as a black box (sqlParser.ts, 104).  It is modelled on the SQL the *)
(* documents of the model are written in:                                   *)
(*   INSERT INTO t [(c, ...)] VALUES (lit, ...), ...                        *)
(*   UPDATE t SET c = lit, ... [WHERE c op lit]                             *)
(*   SELECT c, ... FROM t [WHERE c op lit]                                  *)
(*   DELETE FROM t [WHERE c op lit]                                         *)
(* with lit a quoted string, a number, TRUE, FALSE or NULL.  Any other text *)
(* is a syntax error.  A string literal's value is the text between its     *)
(* quotes as written (a doubled quote stays doubled).  An INSERT with a     *)
(* column list and a row of another length raises the error "column count   *)
(* doesn't match value count".                                              *)

Keywords == {"INSERT", "INTO", "VALUES", "UPDATE", "SET", "WHERE", "SELECT",
             "FROM", "DELETE"}

Tok(t, v) == [t |-> t, v |-> v]

KW(w) == Tok("kw", <<w>>)

P(c) == Tok("p", <<c>>)

\* the position of the quote that closes a string opened before j, or 0
RECURSIVE StringEnd(_, _, _)
StringEnd(s, j, q) ==
    IF j > Len(s) THEN 0
    ELSE IF s[j] = q
         THEN IF j + 1 <= Len(s) /\ s[j + 1] = q THEN StringEnd(s, j + 2, q) ELSE j
    ELSE StringEnd(s, j + 1, q)

RECURSIVE SkipDigits(_, _)
SkipDigits(s, p) == IF p <= Len(s) /\ s[p] \in Digits THEN SkipDigits(s, p + 1) ELSE p

WordTok(w) ==
    IF Len(w) = 1 /\ w[1] \in Keywords THEN Tok("kw", w)
    ELSE IF toLowerCase(w) = <<"true">> \/ toLowerCase(w) = <<"false">> THEN Tok("bool", w)
    ELSE IF toLowerCase(w) = <<"null">> THEN Tok("null", w)
    ELSE Tok("id", w)

LexError == <<Tok("error", <<>>)>>

RECURSIVE Lex(_, _)
\* the tokens of s from position i on; a text that is no token gives an error token
Lex(s, i) ==
    IF i > Len(s) THEN <<>>
    ELSE LET c == s[i] IN
        IF IsSpace(c) THEN Lex(s, i + 1)
        ELSE IF c = Q \/ c = DQ
        THEN LET e == StringEnd(s, i + 1, c) IN
             IF e = 0 THEN LexError
             ELSE <<Tok(IF c = Q THEN "str1" ELSE "str2", SubSeq(s, i + 1, e - 1))>>
                  \o Lex(s, e + 1)
        ELSE IF c \in Digits \/ (c = "-" /\ i + 1 <= Len(s) /\ s[i + 1] \in Digits)
        THEN LET e == SkipDigits(s, i + 1) IN
             IF e <= Len(s) /\ IsWordChar(s[e]) THEN LexError
             ELSE <<Tok("num", SubSeq(s, i, e - 1))>> \o Lex(s, e)
        ELSE IF c \in {"(", ")", ",", "=", ">", "."}
        THEN <<P(c)>> \o Lex(s, i + 1)
        ELSE IF IsWordChar(c)
        THEN LET e == SkipWord(s, i) IN <<WordTok(SubSeq(s, i, e - 1))>> \o Lex(s, e)
        ELSE LexError

IsLit(tok) == tok.t \in {"str1", "str2", "num", "bool", "null"}

\* the literal node of the AST for a literal token
LitNode(tok) ==
    CASE tok.t = "str1" -> [type |-> "single_quote_string", value |-> Str(tok.v)]
      [] tok.t = "str2" -> [type |-> "double_quote_string", value |-> Str(tok.v)]
      [] tok.t = "num" -> [type |-> "number", value |-> Num(Number(tok.v))]
      [] tok.t = "bool" -> [type |-> "bool", value |-> Bool(toLowerCase(tok.v) = <<"true">>)]
      [] tok.t = "null" -> [type |-> "null", value |-> Null]

SyntaxError == [ok |-> FALSE, message |-> "syntax error", type |-> "none",
                table |-> <<>>, hasColumns |-> FALSE, columns |-> <<>>,
                values |-> <<>>, set |-> <<>>, where |-> <<>>]

CountMismatch == [SyntaxError EXCEPT
                    !.message = "column count doesn't match value count"]

Ast(type, table, hasColumns, columns, values, set, where) ==
    [ok |-> TRUE, message |-> "", type |-> type, table |-> table,
     hasColumns |-> hasColumns, columns |-> columns, values |-> values,
     set |-> set, where |-> where]

\* the position of the first token tok at p or later, or 0
TokIndex(T, tok, p) == IndexFrom(T, tok, p)

IsId(tok) == tok.t = "id"

\* a comma-separated list of literals
IsLitList(T) ==
    LET parts == split(T, P(",")) IN
      \A i \in 1..Len(parts) : Len(parts[i]) = 1 /\ IsLit(parts[i][1])

\* a comma-separated list of identifiers
IsIdList(T) ==
    LET parts == split(T, P(",")) IN
      \A i \in 1..Len(parts) : Len(parts[i]) = 1 /\ IsId(parts[i][1])

ListItems(T) == LET parts == split(T, P(",")) IN [i \in 1..Len(parts) |-> parts[i][1]]

\* c op lit
IsCondition(T) ==
    Len(T) = 3 /\ IsId(T[1]) /\ (T[2] = P("=") \/ T[2] = P(">")) /\ IsLit(T[3])

\* an optional WHERE clause: nothing, or WHERE followed by a condition
IsWhereTail(T) == T = <<>> \/ (T[1] = KW("WHERE") /\ IsCondition(Tail(T)))

WhereOf(T) == IF T = <<>> THEN <<>> ELSE Tail(T)

RECURSIVE RowsOk(_)
\* (lit, ...), (lit, ...), ...
RowsOk(R) ==
    /\ Len(R) >= 3
    /\ R[1] = P("(")
    /\ LET close == TokIndex(R, P(")"), 2) IN
         /\ close > 2
         /\ IsLitList(SubSeq(R, 2, close - 1))
         /\ \/ close = Len(R)
            \/ /\ close + 1 < Len(R)
               /\ R[close + 1] = P(",")
               /\ RowsOk(SubSeq(R, close + 2, Len(R)))

RECURSIVE RowsOf(_)
RowsOf(R) ==
    LET close == TokIndex(R, P(")"), 2)
        items == ListItems(SubSeq(R, 2, close - 1))
        row == [i \in 1..Len(items) |-> LitNode(items[i])]
    IN IF close = Len(R) THEN <<row>>
       ELSE <<row>> \o RowsOf(SubSeq(R, close + 2, Len(R)))

\* INSERT INTO <table> ..., the table named without a database
AstInsertInto(T) ==
    IF ~(Len(T) >= 4 /\ T[2] = KW("INTO") /\ IsId(T[3])) THEN SyntaxError
    ELSE IF T[4] = KW("VALUES")
    THEN IF RowsOk(SubSeq(T, 5, Len(T)))
         THEN Ast("insert", T[3].v, FALSE, <<>>, RowsOf(SubSeq(T, 5, Len(T))), <<>>, <<>>)
         ELSE SyntaxError
    ELSE LET close == TokIndex(T, P(")"), 5)
             cols == SubSeq(T, 5, close - 1)
             rows == SubSeq(T, close + 2, Len(T))
         IN IF /\ T[4] = P("(")
               /\ close > 5
               /\ IsIdList(cols)
               /\ close + 1 <= Len(T)
               /\ T[close + 1] = KW("VALUES")
               /\ RowsOk(rows)
            THEN IF \E i \in 1..Len(RowsOf(rows)) :
                        Len(RowsOf(rows)[i]) # Len(ListItems(cols))
                 THEN CountMismatch
                 ELSE Ast("insert", T[3].v, TRUE,
                          [i \in 1..Len(ListItems(cols)) |-> ListItems(cols)[i].v],
                          RowsOf(rows), <<>>, <<>>)
            ELSE SyntaxError

\* the table is <table> or <database>.<table>: the AST has the table's name
AstInsert(T) ==
    AstInsertInto(IF /\ Len(T) >= 5 /\ T[2] = KW("INTO") /\ IsId(T[3])
                     /\ T[4] = P(".") /\ IsId(T[5])
                  THEN SubSeq(T, 1, 2) \o SubSeq(T, 5, Len(T))
                  ELSE T)

IsAssignment(T) == Len(T) = 3 /\ IsId(T[1]) /\ T[2] = P("=") /\ IsLit(T[3])

AstUpdate(T) ==
    LET w == TokIndex(T, KW("WHERE"), 4)
        stop == IF w = 0 THEN Len(T) ELSE w - 1
        sets == split(SubSeq(T, 4, stop), P(","))
        tail == IF w = 0 THEN <<>> ELSE SubSeq(T, w, Len(T))
    IN IF /\ Len(T) >= 6 /\ IsId(T[2]) /\ T[3] = KW("SET")
          /\ \A i \in 1..Len(sets) : IsAssignment(sets[i])
          /\ IsWhereTail(tail)
       THEN Ast("update", T[2].v, FALSE, <<>>, <<>>,
                [i \in 1..Len(sets) |->
                    [column |-> sets[i][1].v, value |-> LitNode(sets[i][3])]],
                WhereOf(tail))
       ELSE SyntaxError

AstSelect(T) ==
    LET f == TokIndex(T, KW("FROM"), 2)
        cols == SubSeq(T, 2, f - 1)
        tail == SubSeq(T, f + 2, Len(T))
    IN IF /\ f > 2 /\ f + 1 <= Len(T)
          /\ IsIdList(cols)
          /\ IsId(T[f + 1])
          /\ IsWhereTail(tail)
       THEN Ast("select", T[f + 1].v, TRUE,
                [i \in 1..Len(ListItems(cols)) |-> ListItems(cols)[i].v],
                <<>>, <<>>, WhereOf(tail))
       ELSE SyntaxError

AstDelete(T) ==
    IF /\ Len(T) >= 3 /\ T[2] = KW("FROM") /\ IsId(T[3])
       /\ IsWhereTail(SubSeq(T, 4, Len(T)))
    THEN Ast("delete", T[3].v, FALSE, <<>>, <<>>, <<>>, WhereOf(SubSeq(T, 4, Len(T))))
    ELSE SyntaxError

astify(statement) ==
    LET T == Lex(statement, 1) IN
      IF T = <<>> \/ \E i \in 1..Len(T) : T[i].t = "error" THEN SyntaxError
      ELSE IF T[1] = KW("INSERT") THEN AstInsert(T)
      ELSE IF T[1] = KW("UPDATE") THEN AstUpdate(T)
      ELSE IF T[1] = KW("SELECT") THEN AstSelect(T)
      ELSE IF T[1] = KW("DELETE") THEN AstDelete(T)
      ELSE SyntaxError

-----------------------------------------------------------------------------
(* The AST-to-model extractor (sqlParser.ts, 27-70, 101-369, 549-602).      *)
(* A statement model is a record; a field the code leaves undefined is the  *)
(* empty sequence here.                                                     *)

\* the literal nodes of the adapter all carry type and value, so that the
\* branches of extractValue after `val.value !== undefined` are not reached
extractValue(val) ==
    IF val.type = "bool" THEN Bool(val.value.b) ELSE val.value

parseInsertStatement(ast) ==
    LET columns == IF ast.hasColumns THEN ast.columns ELSE <<>>
        values == [i \in 1..Len(ast.values) |->
                      [j \in 1..Len(ast.values[i]) |-> extractValue(ast.values[i][j])]]
    IN [type |-> "insert", tableName |-> ast.table, columns |-> columns,
        values |-> validateAndFixInsertData(columns, NonEmptyOnes(values)),
        data |-> <<>>, where |-> <<>>]

parseUpdateStatement(ast) ==
    [type |-> "update", tableName |-> ast.table,
     columns |-> [i \in 1..Len(ast.set) |-> ast.set[i].column],
     values |-> <<>>,
     data |-> [i \in 1..Len(ast.set) |-> <<Str(ast.set[i].column), ast.set[i].value.value>>],
     where |-> ast.where]

parseSelectStatement(ast) ==
    [type |-> "select", tableName |-> ast.table, columns |-> ast.columns,
     values |-> <<>>, data |-> <<>>, where |-> <<>>]

parseDeleteStatement(ast) ==
    [type |-> "delete", tableName |-> ast.table, columns |-> <<>>,
     values |-> <<>>, data |-> <<>>, where |-> ast.where]

parseAST(ast) ==
    CASE ast.type = "select" -> parseSelectStatement(ast)
      [] ast.type = "insert" -> parseInsertStatement(ast)
      [] ast.type = "update" -> parseUpdateStatement(ast)
      [] ast.type = "delete" -> parseDeleteStatement(ast)

\* parseStatement with the fallback for every error of the SQL parser
parseStatement_AlwaysFallback(statement) ==
    LET ast == astify(statement) IN
      IF ast.ok THEN parseAST(ast)
      ELSE handleColumnCountMismatchError(statement)

parseStatement(statement) ==
    LET ast == astify(statement) IN
      IF ast.ok THEN parseAST(ast)
      ELSE IF ast.message = "column count doesn't match value count"
           THEN handleColumnCountMismatchError(statement)
      ELSE NoStatement

RECURSIVE NotNull(_)
\* the loop given up at the first statement without a model
NotNull_UntilFirst(parsed) ==
    IF parsed = <<>> \/ Head(parsed).type = "none" THEN <<>>
    ELSE <<Head(parsed)>> \o NotNull(Tail(parsed))

\* if (parsed) parsedStatements.push(parsed)
NotNull(parsed) ==
    IF parsed = <<>> THEN <<>>
    ELSE (IF Head(parsed).type # "none" THEN <<Head(parsed)>> ELSE <<>>)
         \o NotNull(Tail(parsed))

\* splitSQLStatements and parseStatement raise nothing, so that the catch
\* clause of parseSQL (success: false) is never entered
parseSQL(sqlContent) ==
    LET statements == splitSQLStatements(sqlContent)
        parsed == [i \in 1..Len(statements) |-> parseStatement(trim(statements[i]))]
    IN [success |-> TRUE, statements |-> NotNull(parsed), raw |-> sqlContent]

-----------------------------------------------------------------------------
(* The SQL regenerator (sqlViewerProvider.ts, 189-263)                      *)

\* an array element that was never assigned (statement.values[r][c] = value
\* with c beyond the end of the row leaves such elements before c)
Hole == [k |-> "hole", b |-> FALSE, n |-> 0, s |-> <<>>]

\* row.map(val => this._formatSQLValue(val)) skips the holes of a row and
\* join renders them as the empty text
FormatCell(val) == IF val.k = "hole" THEN <<>> ELSE _formatSQLValue(val)

Sep == <<",", " ">>

GenerateInsert(statement) ==
    LET columnsStr == Join(statement.columns, Sep)
        rowStr(row) == <<"(">> \o Join([j \in 1..Len(row) |-> FormatCell(row[j])], Sep)
                       \o <<")">>
        valuesStr == Join([i \in 1..Len(statement.values) |-> rowStr(statement.values[i])],
                          Sep)
    IN <<"INSERT", " ", "INTO", " ">> \o statement.tableName \o <<" ", "(">>
       \o columnsStr \o <<")", " ", "VALUES", " ">> \o valuesStr \o <<";">>

\* `${col}`: String(col); a hole reads as undefined
ColText(col) == IF col.k = "hole" THEN <<"undefined">> ELSE JSString(col)

\* _formatSQLValue(undefined) is NULL
FormatVal(val) == IF val.k = "hole" THEN <<"NULL">> ELSE _formatSQLValue(val)

\* the UPDATE with the tokens of its WHERE clause after the assignments
GenerateUpdate_WithWhere(statement) ==
    LET pair(row) == ColText(row[1]) \o <<" ", "=", " ">> \o FormatVal(row[2])
        setClause == Join([i \in 1..Len(statement.data) |-> pair(statement.data[i])], Sep)
        where == IF statement.where = <<>> THEN <<>>
                 ELSE <<" ", "WHERE", " ">>
                      \o Join([i \in 1..Len(statement.where) |-> statement.where[i].v],
                              <<" ">>)
    IN <<"UPDATE", " ">> \o statement.tableName \o <<" ", "SET", " ">> \o setClause
       \o where \o <<";">>

GenerateUpdate(statement) ==
    LET pair(row) == ColText(row[1]) \o <<" ", "=", " ">> \o FormatVal(row[2])
        setClause == Join([i \in 1..Len(statement.data) |-> pair(statement.data[i])], Sep)
    IN <<"UPDATE", " ">> \o statement.tableName \o <<" ", "SET", " ">> \o setClause
       \o <<";">>

GenerateSelect(statement) ==
    <<"SELECT", " ">> \o Join(statement.columns, Sep) \o <<" ", "FROM", " ">>
    \o statement.tableName \o <<";">>

\* the switch with a case for 'delete'
GenerateStatement_WithDelete(statement) ==
    CASE statement.type = "insert" /\ statement.tableName # <<>> -> GenerateInsert(statement)
      [] statement.type = "update" /\ statement.tableName # <<>> -> GenerateUpdate(statement)
      [] statement.type = "select" /\ statement.tableName # <<>> -> GenerateSelect(statement)
      [] statement.type = "delete" /\ statement.tableName # <<>> ->
            <<"DELETE", " ", "FROM", " ">> \o statement.tableName \o <<";">>
      [] OTHER -> <<>>

GenerateStatement(statement) ==
    CASE statement.type = "insert" /\ statement.tableName # <<>> -> GenerateInsert(statement)
      [] statement.type = "update" /\ statement.tableName # <<>> -> GenerateUpdate(statement)
      [] statement.type = "select" /\ statement.tableName # <<>> -> GenerateSelect(statement)
      [] OTHER -> <<>>

_generateSQLFromData(data) ==
    IF ~data.success THEN data.raw
    ELSE Join(NonEmptyOnes([i \in 1..Len(data.statements) |->
                               GenerateStatement(data.statements[i])]),
              <<"\n">>)

-----------------------------------------------------------------------------
(* Bounds of the function specifications                                    *)

MaxNum == 31

MaxStrLen == 3

MaxFields == 3

MaxCols == 3

MaxRows == 2

MaxVals == 3

MaxRTCols == 2

\* the host is not part of a function specification
HostIdle ==
    /\ doc = <<>> /\ currentDocument = "none" /\ lastSQLContent = <<>>
    /\ view = FALSE /\ hostQ = <<>> /\ webQ = <<>> /\ pending = <<>>
    /\ webview = <<>> /\ last = <<>> /\ sent = 0

\* the sequences over S of a length in lo..hi
SeqsOf(S, lo, hi) == UNION {[1..m -> S] : m \in lo..hi}

-----------------------------------------------------------------------------
(* SpecFormat: a scalar value is formatted as a literal by _formatSQLValue, *)
(* and the literal is classified again, by cleanValue (the fallback parser) *)
(* and by the AST adapter with extractValue (the primary path)              *)

StrAlphabet == {"x", Q, DQ, " ", "3", "-", "true", "null", "TRUE", "NULL"}

FormatInputs ==
    {Null, Bool(TRUE), Bool(FALSE)}
    \cup {Num(n) : n \in (0 - MaxNum)..MaxNum}
    \cup {Str(s) : s \in SeqsOf(StrAlphabet, 0, MaxStrLen)}
    \cup {Str(<<"O", Q, "Brien">>), Str(<<"3", "0">>)}

InitFormat ==
    /\ HostIdle
    /\ arg \in FormatInputs
    /\ res = [lit |-> <<>>, back |-> Null, extracted |-> Null]
    /\ pc = "format"

FormatValue ==
    /\ pc = "format"
    /\ res' = [res EXCEPT !.lit = _formatSQLValue(arg)]
    /\ pc' = "classify"
    /\ UNCHANGED <<arg, hostVars>>

\* the value the primary path extracts from a text that is one literal;
\* a text that is not one literal extracts nothing (a hole)
ExtractLiteral(lit) ==
    LET T == Lex(lit, 1) IN
      IF Len(T) = 1 /\ IsLit(T[1]) THEN extractValue(LitNode(T[1])) ELSE Hole

ClassifyLiteral ==
    /\ pc = "classify"
    /\ res' = [res EXCEPT !.back = cleanValue(res.lit),
                          !.extracted = ExtractLiteral(res.lit)]
    /\ pc' = "classified"
    /\ UNCHANGED <<arg, hostVars>>

NextFormat == FormatValue \/ ClassifyLiteral

SpecFormat == InitFormat /\ [][NextFormat]_vars

-----------------------------------------------------------------------------
(* SpecSplit: splitValueString on the inner text of a row of values         *)

\* a field as written in the row, and the value it denotes
Field(src, val) == [src |-> src, val |-> val]

SplitFields ==
    {Field(<<Q, "a", ",", "b", Q>>, Str(<<"a", ",", "b">>)),
     Field(<<"2">>, Num(2)),
     Field(<<Q, "c", Q, Q, "d", Q>>, Str(<<"c", Q, "d">>)),
     Field(<<Q, "x", Q>>, Str(<<"x">>)),
     Field(<<"TRUE">>, Bool(TRUE))}

\* the fields of a row as written: separated by a comma and a space
RowText(fields) == Join([i \in 1..Len(fields) |-> fields[i].src], Sep)

InitSplit ==
    /\ HostIdle
    /\ arg \in SeqsOf(SplitFields, 1, MaxFields)
    /\ res = <<>>
    /\ pc = "split"

SplitRow ==
    /\ pc = "split"
    /\ res' = splitValueString(RowText(arg))
    /\ pc' = "split_done"
    /\ UNCHANGED <<arg, hostVars>>

NextSplit == SplitRow

SpecSplit == InitSplit /\ [][NextSplit]_vars

-----------------------------------------------------------------------------
(* SpecParse and SpecRoundTrip: a document of one statement is extracted by *)
(* parseSQL, regenerated by _generateSQLFromData and extracted again        *)

ColName(i) ==
    CASE i = 1 -> <<"a">> [] i = 2 -> <<"b">> [] i = 3 -> <<"c">>
      [] OTHER -> <<"c">> \o NumText(i)

ColNames(n) == [i \in 1..n |-> ColName(i)]

\* INSERT INTO t (a,b) VALUES (1,'x'),(1); without a column list for no columns
InsertText(cols, rows) ==
    LET rowText(row) == <<"(">> \o Join([j \in 1..Len(row) |-> row[j].src], <<",">>)
                        \o <<")">>
    IN <<"INSERT", " ", "INTO", " ", "t", " ">>
       \o (IF cols = <<>> THEN <<>> ELSE <<"(">> \o Join(cols, <<",">>) \o <<")", " ">>)
       \o <<"VALUES", " ">>
       \o Join([i \in 1..Len(rows) |-> rowText(rows[i])], <<",">>)

\* the condition of the WHERE clauses of the documents: b > 2
WhereText == <<" ", "WHERE", " ", "b", " ", ">", " ", "2">>

\* UPDATE t SET a = 1, b = 'x' [WHERE b > 2];
UpdateText(cols, row, where) ==
    <<"UPDATE", " ", "t", " ", "SET", " ">>
    \o Join([j \in 1..Len(row) |-> cols[j] \o <<" ", "=", " ">> \o row[j].src], Sep)
    \o (IF where THEN WhereText ELSE <<>>) \o <<";">>

\* SELECT a, b FROM t [WHERE b > 2];
SelectText(cols, where) ==
    <<"SELECT", " ">> \o Join(cols, Sep) \o <<" ", "FROM", " ", "t">>
    \o (IF where THEN WhereText ELSE <<>>) \o <<";">>

Input(kind, cols, rows, text) == [kind |-> kind, cols |-> cols, rows |-> rows, text |-> text]

ParseLits == {Field(<<"1">>, Num(1)), Field(<<Q, "x", Q>>, Str(<<"x">>))}

\* the two statements of the spec's fallback examples
TruncateExample ==
    LET rows == << <<Field(<<"1">>, Num(1)), Field(<<Q, "x", Q>>, Str(<<"x">>)),
                     Field(<<Q, "y", Q>>, Str(<<"y">>))>> >>
    IN Input("insert", ColNames(2), rows, InsertText(ColNames(2), rows))

PadExample ==
    LET rows == << <<Field(<<"1">>, Num(1)), Field(<<Q, "x", Q>>, Str(<<"x">>))>> >>
    IN Input("insert", ColNames(3), rows, InsertText(ColNames(3), rows))

ParseInputs ==
    {Input("insert", ColNames(n), rows, InsertText(ColNames(n), rows)) :
        n \in 0..MaxCols, rows \in SeqsOf(SeqsOf(ParseLits, 1, MaxVals), 1, MaxRows)}
    \cup {TruncateExample, PadExample}

RTLits ==
    {Field(<<"1">>, Num(1)),
     Field(<<Q, "x", Q>>, Str(<<"x">>)),
     Field(<<Q, "3", Q>>, Str(<<"3">>)),
     Field(<<"NULL">>, Null),
     Field(<<"TRUE">>, Bool(TRUE)),
     Field(<<Q, "true", Q>>, Str(<<"true">>)),
     Field(<<Q, "null", Q>>, Str(<<"null">>)),
     Field(<<Q, Q>>, Str(<<>>))}

RoundTripInputs ==
    {Input("insert", ColNames(Len(row)), <<row>>, InsertText(ColNames(Len(row)), <<row>>)
                                                  \o <<";">>) :
        row \in SeqsOf(RTLits, 1, MaxRTCols)}
    \cup {Input("update", ColNames(Len(row)), <<row>>, UpdateText(ColNames(Len(row)), row, w)) :
        row \in SeqsOf(RTLits, 1, MaxRTCols), w \in BOOLEAN}
    \cup {Input("select", ColNames(n), <<>>, SelectText(ColNames(n), w)) :
        n \in 1..MaxRTCols, w \in BOOLEAN}

NoData == [success |-> TRUE, statements |-> <<>>, raw |-> <<>>]

InitPipeline(inputs) ==
    /\ HostIdle
    /\ arg \in inputs
    /\ res = [model |-> NoData, text |-> <<>>, again |-> NoData]
    /\ pc = "extract"

Extract ==
    /\ pc = "extract"
    /\ res' = [res EXCEPT !.model = parseSQL(arg.text)]
    /\ pc' = "regenerate"
    /\ UNCHANGED <<arg, hostVars>>

Regenerate ==
    /\ pc = "regenerate"
    /\ res' = [res EXCEPT !.text = _generateSQLFromData(res.model)]
    /\ pc' = "reextract"
    /\ UNCHANGED <<arg, hostVars>>

Reextract ==
    /\ pc = "reextract"
    /\ res' = [res EXCEPT !.again = parseSQL(res.text)]
    /\ pc' = "reextracted"
    /\ UNCHANGED <<arg, hostVars>>

NextPipeline == Extract \/ Regenerate \/ Reextract

InitParse == InitPipeline(ParseInputs)

SpecParse == InitParse /\ [][NextPipeline]_vars

InitRoundTrip == InitPipeline(RoundTripInputs)

SpecRoundTrip == InitRoundTrip /\ [][NextPipeline]_vars

-----------------------------------------------------------------------------
(* Claims about the functions                                               *)

ModelsSoFar ==
    IF pc = "extract" THEN {}
    ELSE IF pc = "reextracted" THEN {res.model, res.again}
    ELSE {res.model}

RowWidthOk(statement) ==
    statement.type = "insert" =>
        \A i \in 1..Len(statement.values) :
            Len(statement.values[i]) = Len(statement.columns)

\* C1: in every Insert statement model that parseSQL returns, from the AST
\* path or from the fallback lexical parser, every row of values has exactly
\* as many entries as the statement has columns.
C1_RowWidth ==
    \A data \in ModelsSoFar :
        \A i \in 1..Len(data.statements) : RowWidthOk(data.statements[i])

\* the fallback parser has padded the short row of INSERT INTO t (a,b,c) VALUES (1,'x')
C1_Witness ==
    /\ pc = "regenerate"
    /\ arg = PadExample
    /\ Len(res.model.statements) = 1
    /\ res.model.statements[1].type = "insert"
    /\ Len(res.model.statements[1].values[1]) = 3

SameStatement(s1, s2) ==
    /\ s1.type = s2.type
    /\ s1.tableName = s2.tableName
    /\ s1.columns = s2.columns
    /\ s1.values = s2.values
    /\ s1.data = s2.data

\* C2: regenerating the SQL text of a freshly extracted Insert, Update or
\* Select model and extracting that text again yields a model with the same
\* tableName, the same columns and equal rows (Insert) or assignments
\* (Update), whatever scalar values the rows hold.
C2_RoundTrip ==
    pc = "reextracted" =>
        /\ Len(res.again.statements) = Len(res.model.statements)
        /\ \A i \in 1..Len(res.model.statements) :
              SameStatement(res.model.statements[i], res.again.statements[i])

\* C6: splitValueString yields one field per top-level comma of the row: a
\* comma inside a quoted string does not end a field and a doubled quote
\* inside a string is one literal quote, so that 'a,b', 2, 'c''d' gives the
\* String a,b, the Number 2 and the String c'd.
C6_QuoteAwareSplit ==
    pc = "split_done" => res = [i \in 1..Len(arg) |-> arg[i].val]

\* the row of n values that the spec's Row Reconciler makes of a row
Reconciled(row, n) ==
    IF Len(row) = n THEN row
    ELSE IF Len(row) > n THEN SubSeq(row, 1, n)
    ELSE row \o [i \in 1..(n - Len(row)) |-> Str(<<>>)]

\* C7: the model of an INSERT has, for each row of the statement, a row of
\* columns.length values: the row itself when it has that length, its first
\* columns.length values when it is longer, its values followed by empty
\* strings when it is shorter; (1,'x','y') for (a,b) gives [1,'x'] and
\* (1,'x') for (a,b,c) gives [1,'x',''].
C7_RowReconciler ==
    pc # "extract" =>
        /\ Len(res.model.statements) = 1
        /\ res.model.statements[1].type = "insert"
        /\ res.model.statements[1].columns = arg.cols
        /\ res.model.statements[1].values =
              [i \in 1..Len(arg.rows) |->
                  Reconciled([j \in 1..Len(arg.rows[i]) |-> arg.rows[i][j].val],
                             Len(arg.cols))]

\* the fallback parser has cut the long row of INSERT INTO t (a,b) VALUES (1,'x','y')
C7_Witness ==
    /\ pc = "regenerate"
    /\ arg = TruncateExample
    /\ res.model.statements[1].values = << <<Num(1), Str(<<"x">>)>> >>

\* C8: a Null, Boolean or Number scalar that _formatSQLValue has formatted
\* is classified back to the same value of the same kind, by cleanValue and
\* by the extraction of the primary path.
C8_FormatInverse ==
    (pc = "classified" /\ arg.k \in {"null", "bool", "num"}) =>
        (res.back = arg /\ res.extracted = arg)

\* the Number 30 has been formatted as the text 30 and classified back
C8_Witness ==
    /\ pc = "classified"
    /\ arg = Num(30)
    /\ res.lit = <<"3", "0">>
    /\ res.back = Num(30)

\* C9: for every String scalar s, unquoting the text that _formatSQLValue
\* makes of s recovers exactly s, embedded single quotes included.
C9_StringInverse ==
    (pc = "classified" /\ arg.k = "str") => res.back = arg

-----------------------------------------------------------------------------
(* The edit operations of the provider (sqlViewerProvider.ts, 105-187,      *)
(* 265-354): what each handler does to the statement it targets             *)

RECURSIVE Holes(_)
Holes(n) == IF n <= 0 THEN <<>> ELSE <<Hole>> \o Holes(n - 1)

\* array[index] = value, for an index within the array
ReplaceAt(array, index, value) ==
    SubSeq(array, 1, index) \o <<value>> \o SubSeq(array, index + 2, Len(array))

\* row[columnIndex] = value; an index beyond the end leaves holes before it
SetAt(row, columnIndex, value) ==
    IF columnIndex < Len(row) THEN ReplaceAt(row, columnIndex, value)
    ELSE row \o Holes(columnIndex - Len(row)) \o <<value>>

\* rows[rowIndex][columnIndex] = value, when rows[rowIndex] exists
SetCell(rows, rowIndex, columnIndex, value) ==
    IF rowIndex < Len(rows)
    THEN ReplaceAt(rows, rowIndex, SetAt(rows[rowIndex + 1], columnIndex, value))
    ELSE rows

\* array.splice(index, 1)
Splice(array, index) ==
    IF index < Len(array)
    THEN SubSeq(array, 1, index) \o SubSeq(array, index + 2, Len(array))
    ELSE array

CellEdit(statement, rowIndex, columnIndex, value) ==
    IF statement.type = "insert"
    THEN [statement EXCEPT !.values = SetCell(statement.values, rowIndex, columnIndex, value)]
    ELSE IF statement.type = "update"
    THEN [statement EXCEPT !.data = SetCell(statement.data, rowIndex, columnIndex, value)]
    ELSE statement

AddRow(statement) ==
    IF statement.type = "insert"
    THEN [statement EXCEPT !.values =
             Append(statement.values, [j \in 1..Len(statement.columns) |-> Str(<<>>)])]
    ELSE IF statement.type = "update"
    THEN [statement EXCEPT !.data =
             Append(statement.data,
                    <<Str(IF statement.columns # <<>> THEN statement.columns[1] ELSE <<>>),
                      Str(<<>>)>>)]
    ELSE statement

DeleteRow(statement, rowIndex) ==
    IF statement.type = "insert"
    THEN [statement EXCEPT !.values = Splice(statement.values, rowIndex)]
    ELSE IF statement.type = "update"
    THEN [statement EXCEPT !.data = Splice(statement.data, rowIndex)]
    ELSE statement

\* `column${counter}`
ColumnN(counter) == <<"column">> \o NatText(counter)

Includes(columns, name) == \E i \in 1..Len(columns) : columns[i] = name

RECURSIVE NewColumnName(_, _)
\* the name after the last column, whatever the columns are called
NewColumnName_ByCount(columns, counter) == ColumnN(Len(columns) + 1)

\* while (statement.columns.includes(newColumnName)) { counter++; ... }
NewColumnName(columns, counter) ==
    IF Includes(columns, ColumnN(counter)) THEN NewColumnName(columns, counter + 1)
    ELSE ColumnN(counter)

AddColumn(statement) ==
    IF statement.type = "insert"
    THEN [statement EXCEPT
             !.columns = Append(statement.columns, NewColumnName(statement.columns, 1)),
             !.values = [i \in 1..Len(statement.values) |->
                            Append(statement.values[i], Str(<<>>))]]
    ELSE statement

\* deleteColumn that takes the name away and leaves the rows as they are
DeleteColumn_NameOnly(statement, columnIndex) ==
    IF statement.type = "insert" /\ columnIndex < Len(statement.columns)
    THEN [statement EXCEPT !.columns = Splice(statement.columns, columnIndex)]
    ELSE statement

DeleteColumn(statement, columnIndex) ==
    IF statement.type = "insert" /\ columnIndex < Len(statement.columns)
    THEN [statement EXCEPT
             !.columns = Splice(statement.columns, columnIndex),
             !.values = [i \in 1..Len(statement.values) |->
                            Splice(statement.values[i], columnIndex)]]
    ELSE statement

\* editColumnName without the test of the statement type
EditColumnName_AnyType(statement, columnIndex, newName) ==
    IF columnIndex < Len(statement.columns)
    THEN [statement EXCEPT !.columns = ReplaceAt(statement.columns, columnIndex, newName)]
    ELSE statement

EditColumnName(statement, columnIndex, newName) ==
    IF statement.type = "insert" /\ columnIndex < Len(statement.columns)
    THEN [statement EXCEPT !.columns = ReplaceAt(statement.columns, columnIndex, newName)]
    ELSE statement

-----------------------------------------------------------------------------
(* Spec: the provider, the document and the webview.  The webview posts     *)
(* messages to the host, the host handles them one at a time in arrival     *)
(* order, a handler that edits hands the new text to applyEdit, and the     *)
(* change of the document is sent back to the webview.                      *)

\* documents the editor may show when the extension is activated
UsersDoc ==
    <<"INSERT", " ", "INTO", " ", "users", " ", "(", "name", ",", " ", "age", ")", " ",
      "VALUES", " ", "(", Q, "Al", Q, ",", " ", "3", "0", ")", ";">>

ColumnsDoc ==
    <<"INSERT", " ", "INTO", " ", "t", " ", "(", "column", "1", ",", " ", "x", ")", " ",
      "VALUES", " ", "(", "1", ",", " ", Q, "3", Q, ")", ";">>

WhereDoc ==
    <<"UPDATE", " ", "t", " ", "SET", " ", "a", " ", "=", " ", "1", " ", "WHERE", " ",
      "a", " ", ">", " ", "2", ";", "\n",
      "DELETE", " ", "FROM", " ", "t", " ", "WHERE", " ", "a", " ", "=", " ", "1", ";">>

RowsDoc ==
    <<"SELECT", " ", "a", ",", " ", "b", " ", "FROM", " ", "t", ";", "\n",
      "INSERT", " ", "INTO", " ", "t", " ", "(", "a", ",", " ", "b", ")", " ", "VALUES", " ",
      "(", "1", ",", " ", Q, "x", Q, ")", ",", " ", "(", "2", ",", " ", Q, "y", Q, ")", ";">>

InitDocs == {UsersDoc, ColumnsDoc, WhereDoc, RowsDoc}

\* the text of an SQL document that is open but not in the active editor
OtherDoc == <<"SELECT", " ", "c", " ", "FROM", " ", "s", ";">>

\* a message of the webview; a field its type does not carry is 0 or empty
Msg(type, statementIndex, rowIndex, columnIndex, value, newName, whereClause) ==
    [type |-> type, statementIndex |-> statementIndex, rowIndex |-> rowIndex,
     columnIndex |-> columnIndex, value |-> value, newName |-> newName,
     whereClause |-> whereClause]

Ready == Msg("ready", 0, 0, 0, Null, <<>>, <<>>)

StatementIndexes == {0, 1}

RowIndexes == {0, 1}

ColumnIndexes == {0, 1}

\* what the user types into a cell: the webview sends the text of the editor
CellTexts == {<<"3", "1">>, <<"x">>}

NewNames == {<<"y">>}

\* what the user types into the WHERE editor: age >, age > 1, nothing
WhereTexts == {<<"age", " ", ">">>, <<"age", " ", ">", " ", "1">>, <<>>}

EditMessages ==
    {Msg("cellEdit", s, r, c, Str(v), <<>>, <<>>) :
        s \in StatementIndexes, r \in RowIndexes, c \in ColumnIndexes, v \in CellTexts}
    \cup {Msg("addRow", s, 0, 0, Null, <<>>, <<>>) : s \in StatementIndexes}
    \cup {Msg("deleteRow", s, r, 0, Null, <<>>, <<>>) :
             s \in StatementIndexes, r \in RowIndexes}
    \cup {Msg("addColumn", s, 0, 0, Null, <<>>, <<>>) : s \in StatementIndexes}
    \cup {Msg("deleteColumn", s, 0, c, Null, <<>>, <<>>) :
             s \in StatementIndexes, c \in ColumnIndexes}
    \cup {Msg("editColumnName", s, 0, c, Null, n, <<>>) :
             s \in StatementIndexes, c \in ColumnIndexes, n \in NewNames}
    \cup {Msg("editWhere", s, 0, 0, Null, <<>>, w) :
             s \in StatementIndexes, w \in WhereTexts}

\* the webview posts at most MaxSent edits, and at most MaxQueue messages
\* wait for the host at a time
MaxSent == 1

MaxQueue == 1

\* history of the message handled last: the text the handler read, the data
\* it regenerated from, whether it handed a text to applyEdit and which,
\* and what it posted to the webview
NoLast ==
    [msg |-> Msg("none", 0, 0, 0, Null, <<>>, <<>>), before |-> <<>>, model |-> NoData,
     wrote |-> FALSE, newSQL |-> <<>>, posted |-> <<>>]

Init ==
    /\ doc \in InitDocs
    /\ currentDocument = "none"
    /\ lastSQLContent = <<>>
    /\ view = FALSE
    /\ hostQ = <<>>
    /\ webQ = <<>>
    /\ pending = <<>>
    /\ webview = [started |-> FALSE, loading |-> TRUE, data |-> NoData]
    /\ last = NoLast
    /\ sent = 0
    /\ arg = <<>>
    /\ res = <<>>
    /\ pc = "host"

\* updateWebview without the comparison with the text seen last
Posts_Always(text) ==
    IF view
    THEN <<[type |-> "updateData", data |-> parseSQL(text)]>>
    ELSE <<>>

\* what updateWebview posts for a document of this text
Posts(text) ==
    IF view /\ text # lastSQLContent
    THEN <<[type |-> "updateData", data |-> parseSQL(text)]>>
    ELSE <<>>

\* document is what updateWebview is called with, text is its getText()
updateWebview(document, text) ==
    /\ currentDocument' = document
    /\ lastSQLContent' = IF view THEN text ELSE lastSQLContent
    /\ webQ' = webQ \o Posts(text)

\* activate, and the active editor becoming the SQL document's
onDidChangeActiveTextEditor ==
    /\ updateWebview("doc", doc)
    /\ UNCHANGED <<doc, view, hostQ, pending, webview, last, sent, funVars>>

resolveWebviewView ==
    /\ ~view
    /\ view' = TRUE
    /\ UNCHANGED <<doc, currentDocument, lastSQLContent, hostQ, webQ, pending, webview,
                   last, sent, funVars>>

onDidChangeVisibility ==
    /\ view
    /\ updateWebview("doc", doc)
    /\ UNCHANGED <<doc, view, hostQ, pending, webview, last, sent, funVars>>

\* the script of the webview renders the component and posts ready
WebviewStart ==
    /\ view
    /\ ~webview.started
    /\ Len(hostQ) < MaxQueue
    /\ webview' = [webview EXCEPT !.started = TRUE]
    /\ hostQ' = Append(hostQ, Ready)
    /\ UNCHANGED <<doc, currentDocument, lastSQLContent, view, webQ, pending, last, sent,
                   funVars>>

\* a handleMessage that answers updateData with another ready
WebviewReceive_Ready ==
    /\ webQ # <<>>
    /\ webview.started
    /\ webview' = [webview EXCEPT !.loading = FALSE, !.data = Head(webQ).data]
    /\ webQ' = Tail(webQ)
    /\ hostQ' = Append(hostQ, Ready)
    /\ UNCHANGED <<doc, currentDocument, lastSQLContent, view, pending, last, sent,
                   funVars>>

\* SQLViewer.handleMessage
WebviewReceive ==
    /\ webQ # <<>>
    /\ webview.started
    /\ webview' = [webview EXCEPT !.loading = FALSE, !.data = Head(webQ).data]
    /\ webQ' = Tail(webQ)
    /\ UNCHANGED <<doc, currentDocument, lastSQLContent, view, hostQ, pending, last, sent,
                   funVars>>

\* the user edits the table that the webview shows
WebviewPost ==
    /\ webview.started
    /\ ~webview.loading
    /\ sent < MaxSent
    /\ Len(hostQ) < MaxQueue
    /\ \E m \in EditMessages : hostQ' = Append(hostQ, m)
    /\ sent' = sent + 1
    /\ UNCHANGED <<doc, currentDocument, lastSQLContent, view, webQ, pending, webview,
                   last, funVars>>

\* this._currentDocument.getText(); without a current document the text of
\* the active editor's
getText == IF currentDocument = "other" THEN OtherDoc ELSE doc

\* case 'ready': the current document, or else the active editor's
CaseReady ==
    /\ hostQ # <<>>
    /\ Head(hostQ).type = "ready"
    /\ updateWebview(IF currentDocument = "none" THEN "doc" ELSE currentDocument, getText)
    /\ last' = [NoLast EXCEPT !.msg = Head(hostQ), !.before = getText,
                              !.posted = Posts(getText)]
    /\ hostQ' = Tail(hostQ)
    /\ UNCHANGED <<doc, view, pending, webview, sent, funVars>>

\* the handler goes on after its two early returns: a document is known and
\* the message names a statement of it
Found(message, parsedData) ==
    /\ currentDocument # "none"
    /\ parsedData.success
    /\ message.statementIndex < Len(parsedData.statements)

\* const statement = parsedData.statements[statementIndex]
Target(message, parsedData) == parsedData.statements[message.statementIndex + 1]

\* _updateSQLFile: the edit replaces the range that is the whole text of the
\* active editor's document now, once applyEdit gets to it; the active editor
\* shows the SQL document throughout
_updateSQLFile(sql) == pending' = Append(pending, [fullRange |-> Len(doc), sql |-> sql])

Written(message, parsedData, newSQL) ==
    /\ _updateSQLFile(newSQL)
    /\ last' = [msg |-> message, before |-> getText, model |-> parsedData, wrote |-> TRUE,
                newSQL |-> newSQL, posted |-> <<>>]

\* the tail of an edit handler: the text is regenerated from all the statements
\* and written
Regenerated(message, parsedData) ==
    Written(message, parsedData, _generateSQLFromData(parsedData))

\* the statement was changed in place
Mutated(message, parsedData, statement) ==
    Regenerated(message,
                [parsedData EXCEPT !.statements =
                    ReplaceAt(parsedData.statements, message.statementIndex, statement)])

\* an early return that hands an empty text to applyEdit
Returned_Writing(message) ==
    /\ pending' = Append(pending, [fullRange |-> Len(doc), sql |-> <<>>])
    /\ last' = [NoLast EXCEPT !.msg = message, !.before = getText]

Returned(message) ==
    /\ pending' = pending
    /\ last' = [NoLast EXCEPT !.msg = message, !.before = getText]

\* the handlers, after parsedData = parseSQL(this._currentDocument.getText())
_handleCellEdit(message, parsedData) ==
    IF Found(message, parsedData)
    THEN Mutated(message, parsedData,
                 CellEdit(Target(message, parsedData), message.rowIndex,
                          message.columnIndex, message.value))
    ELSE Returned(message)

_handleAddRow(message, parsedData) ==
    IF Found(message, parsedData)
    THEN Mutated(message, parsedData, AddRow(Target(message, parsedData)))
    ELSE Returned(message)

_handleDeleteRow(message, parsedData) ==
    IF Found(message, parsedData)
    THEN Mutated(message, parsedData,
                 DeleteRow(Target(message, parsedData), message.rowIndex))
    ELSE Returned(message)

_handleAddColumn(message, parsedData) ==
    IF Found(message, parsedData)
    THEN Mutated(message, parsedData, AddColumn(Target(message, parsedData)))
    ELSE Returned(message)

_handleDeleteColumn(message, parsedData) ==
    IF Found(message, parsedData)
    THEN Mutated(message, parsedData,
                 DeleteColumn(Target(message, parsedData), message.columnIndex))
    ELSE Returned(message)

_handleEditColumnName(message, parsedData) ==
    IF Found(message, parsedData)
    THEN Mutated(message, parsedData,
                 EditColumnName(Target(message, parsedData), message.columnIndex,
                                message.newName))
    ELSE Returned(message)

\* onDidReceiveMessage takes the next message, of this type
Received(type) ==
    /\ hostQ # <<>>
    /\ Head(hostQ).type = type
    /\ hostQ' = Tail(hostQ)
    /\ UNCHANGED <<doc, currentDocument, lastSQLContent, view, webQ, webview, sent,
                   funVars>>

\* the cases of the switch on message.type
CaseCellEdit == Received("cellEdit") /\ _handleCellEdit(Head(hostQ), parseSQL(getText))

CaseAddRow == Received("addRow") /\ _handleAddRow(Head(hostQ), parseSQL(getText))

CaseDeleteRow == Received("deleteRow") /\ _handleDeleteRow(Head(hostQ), parseSQL(getText))

CaseAddColumn == Received("addColumn") /\ _handleAddColumn(Head(hostQ), parseSQL(getText))

CaseDeleteColumn ==
    Received("deleteColumn") /\ _handleDeleteColumn(Head(hostQ), parseSQL(getText))

CaseEditColumnName ==
    Received("editColumnName") /\ _handleEditColumnName(Head(hostQ), parseSQL(getText))

\* the switch has no case 'editWhere': the message is taken from the queue
\* and nothing else happens
NoCaseEditWhere == Received("editWhere") /\ Returned(Head(hostQ))

\* applyEdit replaces the text of the document, and onDidChangeTextDocument
\* passes the changed document to updateWebview
Replaced(text, edit) == edit.sql \o SubSeq(text, edit.fullRange + 1, Len(text))

ApplyEdit ==
    /\ pending # <<>>
    /\ doc' = Replaced(doc, Head(pending))
    /\ pending' = Tail(pending)
    /\ updateWebview("doc", Replaced(doc, Head(pending)))
    /\ UNCHANGED <<view, hostQ, webview, last, sent, funVars>>

Next ==
    \/ onDidChangeActiveTextEditor
    \/ resolveWebviewView
    \/ onDidChangeVisibility
    \/ WebviewStart
    \/ WebviewReceive
    \/ WebviewPost
    \/ CaseReady
    \/ CaseCellEdit
    \/ CaseAddRow
    \/ CaseDeleteRow
    \/ CaseAddColumn
    \/ CaseDeleteColumn
    \/ CaseEditColumnName
    \/ NoCaseEditWhere
    \/ ApplyEdit

Spec == Init /\ [][Next]_vars

-----------------------------------------------------------------------------
(* Claims about the edit operations (Spec)                                  *)

\* the statement that the message handled last named, as its handler read it
LastTarget == parseSQL(last.before).statements[last.msg.statementIndex + 1]

\* the same statement after the handler changed it
LastEdited == last.model.statements[last.msg.statementIndex + 1]

\* the text of a statement without the semicolon that ends it
Fragment(text) == trim(splitSQLStatements(text)[1])

\* the token of cell (rowIndex, columnIndex) among the tokens of
\* INSERT INTO t (c1, ..., cn) VALUES (v, ..., v), ..., counted from 0
CellPosition(n, rowIndex, columnIndex) ==
    (2 * n + 5) + rowIndex * (2 * n + 2) + 1 + 2 * columnIndex

\* the message handled last is a cellEdit that names a cell of an Insert
\* statement which the handler has rewritten
InRangeCellEdit ==
    /\ last.msg.type = "cellEdit"
    /\ last.wrote
    /\ Len(splitSQLStatements(last.before)) = Len(parseSQL(last.before).statements)
    /\ astify(trim(splitSQLStatements(last.before)[last.msg.statementIndex + 1])).ok
    /\ LastTarget.type = "insert"
    /\ last.msg.rowIndex < Len(LastTarget.values)
    /\ last.msg.columnIndex < Len(LastTarget.columns)

\* C3: a cellEdit with in-range indices on an Insert statement replaces, in
\* the regenerated text of the statement, exactly the literal of the cell
\* (rowIdx, colIdx) by the formatted new value: the table name, the column
\* list and every other literal are the ones of the text before
C3_CellEditExact ==
    InRangeCellEdit =>
        LET old == Lex(trim(splitSQLStatements(last.before)[last.msg.statementIndex + 1]), 1)
            new == Lex(Fragment(GenerateStatement(LastEdited)), 1)
            pos == CellPosition(Len(LastTarget.columns), last.msg.rowIndex,
                                last.msg.columnIndex)
        IN new = ReplaceAt(old, pos, Lex(_formatSQLValue(last.msg.value), 1)[1])

\* text is accepted as a WHERE clause: the statement SELECT x FROM t WHERE text
\* parses
ValidWhere(text) ==
    astify(<<"SELECT", " ", "x", " ", "FROM", " ", "t", " ", "WHERE", " ">> \o text).ok

\* C4: when the host has handled an editWhere message whose text is not a
\* valid WHERE clause, it has written nothing to the document and it has
\* posted a message other than updateData, the report of the failure, back
\* to the webview
C4_InvalidWhereRejected ==
    (last.msg.type = "editWhere" /\ last.msg.whereClause # <<>>
       /\ ~ValidWhere(last.msg.whereClause))
    => /\ ~last.wrote
       /\ \E i \in 1..Len(last.posted) : last.posted[i].type # "updateData"

\* C5: when the host has handled an editWhere message with a valid (or empty)
\* text for an Update or Delete statement and no write is outstanding, that
\* statement of the document carries the new WHERE clause (none for the
\* empty text)
C5_ValidWhereCommitted ==
    (/\ last.msg.type = "editWhere"
     /\ (last.msg.whereClause = <<>> \/ ValidWhere(last.msg.whereClause))
     /\ last.msg.statementIndex < Len(parseSQL(last.before).statements)
     /\ LastTarget.type \in {"update", "delete"}
     /\ pending = <<>>)
    => /\ last.msg.statementIndex < Len(parseSQL(doc).statements)
       /\ parseSQL(doc).statements[last.msg.statementIndex + 1].where
            = Lex(last.msg.whereClause, 1)

\* the message handled last is an addColumn that names an Insert statement
AddedColumn ==
    /\ last.msg.type = "addColumn"
    /\ last.wrote
    /\ LastTarget.type = "insert"

\* C10: addColumn on an Insert statement appends to the columns the first of
\* the names column1, column2, ... that is not among them, which is therefore
\* no name of an existing column, and appends one empty string to every row;
\* the regenerated statement has these columns, and rows that end with ''
C10_AddColumn ==
    AddedColumn =>
        LET old == LastTarget
            new == LastEdited
            name == new.columns[Len(new.columns)]
            text == parseSQL(GenerateStatement(new)).statements[1]
        IN /\ new.columns = Append(old.columns, name)
           /\ ~Includes(old.columns, name)
           /\ \E k \in 1..(Len(old.columns) + 1) :
                 /\ name = ColumnN(k)
                 /\ \A j \in 1..(k - 1) : Includes(old.columns, ColumnN(j))
           /\ Len(new.values) = Len(old.values)
           /\ \A i \in 1..Len(old.values) : new.values[i] = Append(old.values[i], Str(<<>>))
           /\ new.tableName = old.tableName
           /\ text.columns = new.columns
           /\ Len(text.values) = Len(old.values)
           /\ \A i \in 1..Len(text.values) :
                 /\ Len(text.values[i]) = Len(new.columns)
                 /\ text.values[i][Len(new.columns)] = Str(<<>>)

\* the columns [column1, x] have got column2, and the text is in the document
C10_Witness ==
    /\ AddedColumn
    /\ last.before = ColumnsDoc
    /\ LastEdited.columns = <<ColumnN(1), <<"x">>, ColumnN(2)>>
    /\ LastEdited.values = <<<<Num(1), Str(<<"3">>), Str(<<>>)>>>>
    /\ doc = last.newSQL
    /\ doc # last.before

-----------------------------------------------------------------------------
(* Claims about the regenerated text (Spec)                                 *)

\* every statement of the text is accepted by the SQL parser
ValidSQL(text) ==
    LET statements == splitSQLStatements(text)
    IN \A i \in 1..Len(statements) :
          trim(statements[i]) # <<>> => astify(trim(statements[i])).ok

\* C11: when an edit handler has rewritten a document whose statements all
\* parse, every statement of the regenerated text is valid SQL: every INSERT
\* has a column and a row of values, every UPDATE has an assignment
C11_RegeneratedValid ==
    (last.wrote /\ ValidSQL(last.before)) => ValidSQL(last.newSQL)

\* the table name and the projected columns of every Select statement of the
\* text, in the order of the text
SelectsOf(text) ==
    LET selects == SelectSeq(parseSQL(text).statements, LAMBDA s : s.type = "select")
    IN [i \in 1..Len(selects) |->
           [tableName |-> selects[i].tableName, columns |-> selects[i].columns]]

-----------------------------------------------------------------------------
(* Claims about the notifications of the webview (Spec)                     *)

\* a step that calls updateWebview; the text of the document it is called
\* with is doc'
UpdateCall == onDidChangeActiveTextEditor \/ onDidChangeVisibility \/ CaseReady \/ ApplyEdit

\* the step has posted exactly this one updateData
PostedOne(text) ==
    webQ' = Append(webQ, [type |-> "updateData", data |-> parseSQL(text)])

\* C13 as stated: updateWebview posts nothing when the text of the document
\* is the text seen last, and exactly one updateData when it differs
C13_GateAsStated ==
    [][UpdateCall => IF doc' = lastSQLContent THEN webQ' = webQ ELSE PostedOne(doc')]_vars

\* C13: updateWebview posts nothing, and keeps the text seen last, when the
\* text of the document is the text seen last or when no webview is resolved;
\* when a webview is resolved and the text differs it posts exactly one
\* updateData with the parse of the text, and the text becomes the text seen
\* last
C13_Gate ==
    [][UpdateCall =>
         IF view /\ doc' # lastSQLContent
         THEN PostedOne(doc') /\ lastSQLContent' = doc'
         ELSE webQ' = webQ /\ lastSQLContent' = lastSQLContent]_vars

\* the text written by an edit differed from the text seen last and was
\* posted once, the webview shows it, and no later call has posted again
C13_Witness ==
    /\ last.wrote
    /\ pending = <<>>
    /\ doc = last.newSQL
    /\ doc # last.before
    /\ view
    /\ lastSQLContent = doc
    /\ webQ = <<>>
    /\ webview.data = parseSQL(doc)

-----------------------------------------------------------------------------
(* SpecBurst: the provider with a webview that posts several edits in a     *)
(* row, one message of each type and all for the first statement            *)

BurstMessages ==
    {Msg("cellEdit", 0, 0, 1, Str(<<"3", "1">>), <<>>, <<>>),
     Msg("addRow", 0, 0, 0, Null, <<>>, <<>>),
     Msg("deleteRow", 0, 0, 0, Null, <<>>, <<>>),
     Msg("addColumn", 0, 0, 0, Null, <<>>, <<>>),
     Msg("deleteColumn", 0, 0, 1, Null, <<>>, <<>>),
     Msg("editColumnName", 0, 0, 0, Null, <<"y">>, <<>>),
     Msg("editWhere", 0, 0, 0, Null, <<>>, <<"age", " ", ">", " ", "1">>)}

\* the webview posts at most MaxBurst edits
MaxBurst == 2

InitBurst == Init /\ doc \in {UsersDoc, RowsDoc}

\* the user edits the table again without waiting for the table to change
WebviewPostBurst ==
    /\ webview.started
    /\ ~webview.loading
    /\ sent < MaxBurst
    /\ Len(hostQ) < MaxQueue
    /\ \E m \in BurstMessages : hostQ' = Append(hostQ, m)
    /\ sent' = sent + 1
    /\ UNCHANGED <<doc, currentDocument, lastSQLContent, view, webQ, pending, webview,
                   last, funVars>>

NextBurst ==
    \/ onDidChangeActiveTextEditor
    \/ resolveWebviewView
    \/ onDidChangeVisibility
    \/ WebviewStart
    \/ WebviewReceive
    \/ WebviewPostBurst
    \/ CaseReady
    \/ CaseCellEdit
    \/ CaseAddRow
    \/ CaseDeleteRow
    \/ CaseAddColumn
    \/ CaseDeleteColumn
    \/ CaseEditColumnName
    \/ NoCaseEditWhere
    \/ ApplyEdit

SpecBurst == InitBurst /\ [][NextBurst]_vars

\* C14: edit messages are handled one whole cycle at a time: when a handler
\* reads the document and hands its text to applyEdit, no text of an earlier
\* message is still waiting to be applied, so that the text written is the
\* edit applied to the result of the edits before it
C14_WholeCycles == [][Len(pending') > Len(pending) => pending = <<>>]_vars

-----------------------------------------------------------------------------
(* SpecFragments: parseSQL on documents put together from statements that   *)
(* the SQL parser accepts, rejects, or rejects for the count of the values  *)

\* a statement of a document: its text without the semicolon, what the SQL
\* parser does with it, and the statement model expected for it
Piece(class, text, model) == [class |-> class, text |-> text, model |-> model]

Statement(type, tableName, columns, values, where) ==
    [type |-> type, tableName |-> tableName, columns |-> columns, values |-> values,
     data |-> <<>>, where |-> where]

\* INSERT INTO t (a) VALUES (1)
InsertPiece ==
    Piece("accepted",
          <<"INSERT", " ", "INTO", " ", "t", " ", "(", "a", ")", " ", "VALUES", " ",
            "(", "1", ")">>,
          Statement("insert", <<"t">>, <<<<"a">>>>, <<<<Num(1)>>>>, <<>>))

\* SELECT a FROM u
SelectPiece ==
    Piece("accepted", <<"SELECT", " ", "a", " ", "FROM", " ", "u">>,
          Statement("select", <<"u">>, <<<<"a">>>>, <<>>, <<>>))

\* DELETE FROM v
DeletePiece ==
    Piece("accepted", <<"DELETE", " ", "FROM", " ", "v">>,
          Statement("delete", <<"v">>, <<>>, <<>>, <<>>))

\* SELEC a FROM t: no statement of SQL
TypoPiece ==
    Piece("rejected", <<"SELEC", " ", "a", " ", "FROM", " ", "t">>, NoStatement)

\* INSERT INTO t (a) VALUES (1) x: a syntax error in a text that has the form
\* INSERT INTO <table> (<columns>) VALUES <tail>
TrailingPiece ==
    Piece("rejected",
          <<"INSERT", " ", "INTO", " ", "t", " ", "(", "a", ")", " ", "VALUES", " ",
            "(", "1", ")", " ", "x">>,
          NoStatement)

\* INSERT INTO w (a, b) VALUES (1): one value for two columns
MismatchPiece ==
    Piece("mismatch",
          <<"INSERT", " ", "INTO", " ", "w", " ", "(", "a", ",", " ", "b", ")", " ",
            "VALUES", " ", "(", "1", ")">>,
          Statement("insert", <<"w">>, <<<<"a">>, <<"b">>>>, <<<<Num(1), Str(<<>>)>>>>,
                    <<>>))

\* INSERT INTO db.w (a, b) VALUES (1): one value for two columns, and a table
\* name that is no \w+
QualifiedPiece ==
    Piece("mismatch",
          <<"INSERT", " ", "INTO", " ", "db", ".", "w", " ", "(", "a", ",", " ", "b", ")",
            " ", "VALUES", " ", "(", "1", ")">>,
          NoStatement)

Pieces ==
    {InsertPiece, SelectPiece, DeletePiece, TypoPiece, TrailingPiece, MismatchPiece,
     QualifiedPiece}

\* a document has at most MaxPieces statements
MaxPieces == 3

\* the statements end with a semicolon and a line break
DocumentText(pieces) ==
    Join([i \in 1..Len(pieces) |-> pieces[i].text \o <<";">>], <<"\n">>)

FragmentInputs ==
    {[kind |-> "document", pieces |-> pieces, text |-> DocumentText(pieces)] :
        pieces \in SeqsOf(Pieces, 1, MaxPieces)}

InitFragments == InitPipeline(FragmentInputs)

SpecFragments == InitFragments /\ [][NextPipeline]_vars

\* C15: when no statement can be made of the document, parseSQL reports the
\* failure of the whole document: success is false, an error message is set,
\* there are no statements, and raw is the text as it was given
C15_WholeDocumentFailure ==
    (pc # "extract" /\ res.model.statements = <<>>)
    => /\ ~res.model.success
       /\ res.model.raw = arg.text

\* the texts of the statements that render to a text, in their order
Rendered(statements) ==
    SelectSeq([i \in 1..Len(statements) |-> GenerateStatement(statements[i])],
              LAMBDA sql : sql # <<>>)

\* C16: the regenerated text is the rendered statements with a blank line
\* between one and the next; a statement that renders to nothing gives no
\* text and no separator
C16_BlankLineJoin ==
    pc \in {"reextract", "reextracted"}
    => res.text = Join(Rendered(res.model.statements), <<"\n", "\n">>)

-----------------------------------------------------------------------------
(* Claims about the statements that are not written back (Spec)             *)

\* the statements of this type that the text holds
StatementsOfType(text, type) ==
    SelectSeq(parseSQL(text).statements, LAMBDA s : s.type = type)

\* the symbol occurs in the text
Occurs(symbol, text) == \E i \in 1..Len(text) : text[i] = symbol

RECURSIVE ExpectedModels(_)
ExpectedModels(pieces) ==
    IF pieces = <<>> THEN <<>>
    ELSE (IF Head(pieces).model = NoStatement THEN <<>> ELSE <<Head(pieces).model>>)
         \o ExpectedModels(Tail(pieces))

\* the statements of the document that the SQL parser rejects for another
\* reason than the count of the values
RejectedAt(pieces) == {i \in 1..Len(pieces) : pieces[i].class = "rejected"}

\* every statement of the document is accepted, or rejected for another
\* reason than the count of the values
PlainDocument == \A i \in 1..Len(arg.pieces) : arg.pieces[i].class \in {"accepted", "rejected"}

\* C19: a statement that the SQL parser rejects for another reason than the
\* count of the values is dropped without a report: parseSQL returns success
\* true, the models of the other statements in the order of the text, and,
\* with one statement dropped, every later statement one place earlier
C19_RejectedDropped ==
    (pc # "extract" /\ PlainDocument)
    => /\ res.model.success
       /\ res.model.raw = arg.text
       /\ res.model.statements = ExpectedModels(arg.pieces)
       /\ Len(res.model.statements) = Len(arg.pieces) - Cardinality(RejectedAt(arg.pieces))
       /\ \A k \in RejectedAt(arg.pieces) :
             RejectedAt(arg.pieces) = {k}
             => \A j \in (k + 1)..Len(arg.pieces) :
                   res.model.statements[j - 1] = arg.pieces[j].model

\* INSERT ...; SELEC a FROM t; SELECT a FROM u; has given the models of the
\* Insert and of the Select, the Select as the second statement
C19_Witness ==
    /\ pc = "regenerate"
    /\ arg.pieces = <<InsertPiece, TypoPiece, SelectPiece>>
    /\ res.model.success
    /\ res.model.statements = <<InsertPiece.model, SelectPiece.model>>

\* C20: the fallback parser runs for a statement exactly when the SQL parser
\* rejects it for the count of the values: such a statement of the form
\* INSERT INTO <table> (<columns>) VALUES <tail> gets the model of the
\* fallback parser, such a statement of another form gets no model and is
\* dropped, and a statement rejected for another reason gets no model even
\* when it has that form; parseSQL fails in none of these cases
C20_FallbackOnMismatchOnly ==
    pc # "extract"
    => /\ res.model.success
       /\ res.model.statements = ExpectedModels(arg.pieces)

\* one statement of each kind: a syntax error in a text of the form, for
\* which the fallback parser would have a model, a mismatch of the form, and
\* a mismatch of another form, for which the fallback parser has none
C20_Witness ==
    /\ pc = "regenerate"
    /\ arg.pieces = <<TrailingPiece, MismatchPiece, QualifiedPiece>>
    /\ astify(TrailingPiece.text) = SyntaxError
    /\ handleColumnCountMismatchError(TrailingPiece.text).type = "insert"
    /\ astify(MismatchPiece.text) = CountMismatch
    /\ astify(QualifiedPiece.text) = CountMismatch
    /\ handleColumnCountMismatchError(QualifiedPiece.text) = NoStatement
    /\ res.model.success
    /\ res.model.statements = <<MismatchPiece.model>>

-----------------------------------------------------------------------------
(* SpecEditor: the provider with an editor in which the user types while an *)
(* edit is under way, and with a second SQL document, open but not in the   *)
(* active editor, that changes; the user edits a cell or adds a row         *)

\* what the user types at the end of the document
Typed == <<"\n", "SELECT", " ", "x", " ", "FROM", " ", "t", ";">>

\* the documents after a keystroke: a statement more at the end, or another
\* table name in INSERT INTO <table>
Keystrokes(text) == {text \o Typed, ReplaceAt(text, 4, "v")}

InitEditor == Init /\ doc = UsersDoc

EditorMessages ==
    {Msg("cellEdit", 0, 0, 1, Str(<<"3", "1">>), <<>>, <<>>),
     Msg("addRow", 0, 0, 0, Null, <<>>, <<>>)}

WebviewPostEditor ==
    /\ webview.started
    /\ ~webview.loading
    /\ sent < MaxSent
    /\ Len(hostQ) < MaxQueue
    /\ \E m \in EditorMessages : hostQ' = Append(hostQ, m)
    /\ sent' = sent + 1
    /\ UNCHANGED <<doc, currentDocument, lastSQLContent, view, webQ, pending, webview,
                   last, funVars>>

\* the user changes the document after a handler has called applyEdit and
\* before the edit is applied; onDidChangeTextDocument passes the document
\* to updateWebview
ExternalChange ==
    /\ pending # <<>>
    /\ Len(doc) = Head(pending).fullRange
    /\ \E text \in Keystrokes(doc) :
          /\ doc' = text
          /\ updateWebview("doc", text)
    /\ UNCHANGED <<view, hostQ, pending, webview, last, sent, funVars>>

\* onDidChangeTextDocument for the SQL document that is not in the active
\* editor, at most MaxQueue messages waiting for the webview
onDidChangeTextDocument ==
    /\ currentDocument # "other"
    /\ Len(webQ) < MaxQueue
    /\ updateWebview("other", OtherDoc)
    /\ UNCHANGED <<doc, view, hostQ, pending, webview, last, sent, funVars>>

NextEditor ==
    \/ onDidChangeActiveTextEditor
    \/ resolveWebviewView
    \/ onDidChangeVisibility
    \/ WebviewStart
    \/ WebviewReceive
    \/ WebviewPostEditor
    \/ CaseReady
    \/ CaseCellEdit
    \/ CaseAddRow
    \/ ApplyEdit
    \/ ExternalChange
    \/ onDidChangeTextDocument

SpecEditor == InitEditor /\ [][NextEditor]_vars

\* C21: the last writer wins: when the edit of a handler is applied, the
\* document is the text that the handler regenerated, and a change made to
\* the document between the handler's read and the write is not in it
C21_LastWriterWins ==
    [][Len(pending') < Len(pending) => doc' = Head(pending).sql]_vars

\* C27: an edit is written to the document it was made from: when a handler
\* hands a text to applyEdit, which replaces the text of the active editor's
\* document, the document it has read, _currentDocument, is that document
C27_WritesWhatItRead ==
    [][Len(pending') > Len(pending) => currentDocument = "doc"]_vars

-----------------------------------------------------------------------------
(* SpecLive: Spec with the scheduling of the host, the editor and the       *)
(* webview: a message that waits is handled, an edit handed to applyEdit is *)
(* applied, the script of the webview runs                                  *)

\* onDidReceiveMessage is called for the message that waits
Handle ==
    \/ CaseReady
    \/ CaseCellEdit
    \/ CaseAddRow
    \/ CaseDeleteRow
    \/ CaseAddColumn
    \/ CaseDeleteColumn
    \/ CaseEditColumnName
    \/ NoCaseEditWhere

\* Handle is enabled exactly while a message waits in hostQ, and ApplyEdit
\* exactly while an edit waits in pending: their weak fairness is written
\* with these enabling conditions
SpecLive ==
    /\ Init
    /\ [][Next]_vars
    /\ ([]<>(hostQ = <<>>) \/ []<><<Handle>>_vars)
    /\ ([]<>(pending = <<>>) \/ []<><<ApplyEdit>>_vars)
    /\ WF_vars(WebviewStart)
    /\ WF_vars(WebviewReceive)

\* nothing waits: no message for the host, no edit to apply, no message for
\* the webview
Quiescent == hostQ = <<>> /\ pending = <<>> /\ webQ = <<>>

\* C22: after the host has handled an edit message, and without further
\* input of the user, the system comes to rest: a text is handed to
\* applyEdit only by the handler of an edit message, the applied edit posts
\* at most one updateData, the webview answers updateData with nothing, and
\* from some time on nothing waits any more
C22_Quiescence ==
    /\ [][Len(pending') > Len(pending)
            => hostQ # <<>> /\ hostQ' = Tail(hostQ) /\ Head(hostQ).type # "ready"]_vars
    /\ [][Len(pending') < Len(pending) => Len(webQ') <= Len(webQ) + 1]_vars
    /\ [][Len(webQ') < Len(webQ) => hostQ' = hostQ /\ pending' = pending]_vars
    /\ (last.wrote /\ sent = MaxSent) ~> []Quiescent

\* the edit has been written, the webview shows the new text, and nothing
\* waits
C22_Witness ==
    /\ last.wrote
    /\ sent = MaxSent
    /\ Quiescent
    /\ doc = last.newSQL
    /\ doc # last.before
    /\ lastSQLContent = doc
    /\ webview.data = parseSQL(doc)

-----------------------------------------------------------------------------
(* SpecStatements: a text put together from statements, terminators, white  *)
(* space and comment markers is split by splitSQLStatements                 *)

Chunks ==
    {<<"a">>, <<";">>, <<" ">>, <<"\n">>, <<"-">>, <<"-", "-">>, <<"/", "*">>, <<"*", "/">>}

MaxChunks == 4

InitStatements ==
    /\ HostIdle
    /\ \E parts \in SeqsOf(Chunks, 0, MaxChunks) : arg = Join(parts, <<>>)
    /\ res = <<>>
    /\ pc = "statements"

SplitStatements ==
    /\ pc = "statements"
    /\ res' = splitSQLStatements(arg)
    /\ pc' = "statements_done"
    /\ UNCHANGED <<arg, hostVars>>

NextStatements == SplitStatements

SpecStatements == InitStatements /\ [][NextStatements]_vars

RECURSIVE BlockCommented(_, _)
\* the positions of s, from i on, that lie in a block comment: a comment
\* begins at the first slash-star and ends with the first star-slash after it
BlockCommented(s, i) ==
    IF i >= Len(s) THEN {}
    ELSE IF s[i] = "/" /\ s[i + 1] = "*" /\ BlockEnd(s, i + 2) # 0
         THEN i..(BlockEnd(s, i + 2) + 1) \cup BlockCommented(s, BlockEnd(s, i + 2) + 2)
    ELSE BlockCommented(s, i + 1)

\* the positions of s from a double dash to the end of its line
LineCommented(s) ==
    {p \in 1..Len(s) :
        \E q \in 1..p :
            /\ q < Len(s)
            /\ s[q] = "-"
            /\ s[q + 1] = "-"
            /\ \A k \in q..p : s[k] # "\n"}

RECURSIVE Without(_, _, _)
\* s from position i on, without the positions of drop
Without(s, drop, i) ==
    IF i > Len(s) THEN <<>>
    ELSE (IF i \in drop THEN <<>> ELSE <<s[i]>>) \o Without(s, drop, i + 1)

\* the text without its comments: the block comments first, then the line
\* comments of what is left, then the lines that are blank
Uncommented(s) ==
    LET t == Without(s, BlockCommented(s, 1), 1)
        u == Without(t, LineCommented(t), 1)
    IN Join(NonBlankOnes(split(u, "\n")), <<"\n">>)

\* the trimmed segments between the terminators, the empty ones left out
Segments(s) ==
    LET pieces == split(s, ";")
    IN NonEmptyOnes([i \in 1..Len(pieces) |-> trim(pieces[i])])

\* C23: splitSQLStatements returns, in the order of the text, the trimmed
\* non-empty segments between the semicolons of the text without its
\* comments: no fragment is empty, begins or ends with white space, holds a
\* semicolon or holds a double dash
C23_SplitterFragments ==
    pc = "statements_done" =>
        /\ res = Segments(Uncommented(arg))
        /\ \A i \in 1..Len(res) :
            /\ res[i] # <<>>
            /\ ~IsSpace(res[i][1])
            /\ ~IsSpace(res[i][Len(res[i])])
            /\ \A k \in 1..Len(res[i]) : res[i][k] # ";"
            /\ CommentIndex(res[i]) = 0

\* a statement after a block comment that holds a terminator
C23_Witness ==
    /\ pc = "statements_done"
    /\ arg = <<"/", "*", ";", "*", "/", "a">>
    /\ res = << <<"a">> >>

-----------------------------------------------------------------------------
(* The rules of _formatSQLValue, one by one                                 *)

\* the text the rules look at: String(val).trim()
Trimmed == trim(JSString(arg))

WrappedIn(text, quote) == startsWith(text, quote) /\ endsWith(text, quote)

\* the text between the first and the last symbol
Inner(text) == SubSeq(text, 2, Len(text) - 1)

IsNullText(text) == text \in {<<"null">>, <<"NULL">>}

IsBooleanText(text) == text \in {<<"true">>, <<"TRUE">>, <<"false">>, <<"FALSE">>}

IsNumericText(text) ==
    /\ text # <<>>
    /\ \/ IsDigits(text)
       \/ (Len(text) >= 2 /\ text[1] = "-" /\ IsDigits(Tail(text)))

\* text with every single quote of it written twice
QuotesDoubled(text) == Join(split(text, Q), <<Q, Q>>)

\* C24: _formatSQLValue applies its rules in this order, the first that
\* matches deciding: null gives NULL; a trimmed text that begins and ends
\* with a single quote is passed through, one that begins and ends with a
\* double quote has these two rewritten to single quotes; the text null gives
\* NULL; the texts true and false give TRUE and FALSE; a numeric text that is
\* not empty is emitted as it is; every other text, the empty one included,
\* is put between single quotes with every single quote of it doubled
C24_RuleOrder ==
    pc # "format" =>
        /\ arg.k = "null" => res.lit = <<"NULL">>
        /\ (arg.k # "null" /\ WrappedIn(Trimmed, Q)) => res.lit = Trimmed
        /\ (arg.k # "null" /\ ~WrappedIn(Trimmed, Q) /\ WrappedIn(Trimmed, DQ)) =>
              res.lit = <<Q>> \o Inner(Trimmed) \o <<Q>>
        /\ (arg.k # "null" /\ IsNullText(Trimmed)) => res.lit = <<"NULL">>
        /\ (arg.k # "null" /\ Trimmed \in {<<"true">>, <<"TRUE">>}) => res.lit = <<"TRUE">>
        /\ (arg.k # "null" /\ Trimmed \in {<<"false">>, <<"FALSE">>}) =>
              res.lit = <<"FALSE">>
        /\ (arg.k # "null" /\ IsNumericText(Trimmed)) => res.lit = Trimmed
        /\ ( /\ arg.k # "null"
             /\ ~WrappedIn(Trimmed, Q)
             /\ ~WrappedIn(Trimmed, DQ)
             /\ ~IsNullText(Trimmed)
             /\ ~IsBooleanText(Trimmed)
             /\ ~IsNumericText(Trimmed) ) =>
              res.lit = <<Q>> \o QuotesDoubled(Trimmed) \o <<Q>>

\* a single quote between double quotes: the two double quotes have become
\* single quotes and the quote between them is as typed
C24_Witness ==
    /\ pc = "classified"
    /\ arg = Str(<<DQ, Q, DQ>>)
    /\ res.lit = <<Q, Q, Q>>

-----------------------------------------------------------------------------
(* SpecEdit: one edit operation on one statement of a parsed document, with *)
(* the indices a message may carry, those beyond the table included         *)

MaxIndex == 3

EditIndexes == 0..MaxIndex

\* the statements the Extractor makes of the documents
EditStatements ==
    UNION {{parseSQL(d).statements[i] : i \in 1..Len(parseSQL(d).statements)} :
              d \in {RowsDoc, WhereDoc, UsersDoc}}

EditOperations ==
    {Msg("cellEdit", 0, r, c, Str(v), <<>>, <<>>) :
        r \in EditIndexes, c \in EditIndexes, v \in CellTexts}
    \cup {Msg("addRow", 0, 0, 0, Null, <<>>, <<>>), Msg("addColumn", 0, 0, 0, Null, <<>>, <<>>)}
    \cup {Msg("deleteRow", 0, r, 0, Null, <<>>, <<>>) : r \in EditIndexes}
    \cup {Msg("deleteColumn", 0, 0, c, Null, <<>>, <<>>) : c \in EditIndexes}
    \cup {Msg("editColumnName", 0, 0, c, Null, n, <<>>) : c \in EditIndexes, n \in NewNames}

\* the switch of onDidReceiveMessage and what the handler of the case does
\* to the statement
Operation(statement, message) ==
    CASE message.type = "cellEdit" ->
             CellEdit(statement, message.rowIndex, message.columnIndex, message.value)
      [] message.type = "addRow" -> AddRow(statement)
      [] message.type = "deleteRow" -> DeleteRow(statement, message.rowIndex)
      [] message.type = "addColumn" -> AddColumn(statement)
      [] message.type = "deleteColumn" -> DeleteColumn(statement, message.columnIndex)
      [] message.type = "editColumnName" ->
             EditColumnName(statement, message.columnIndex, message.newName)

InitEdit ==
    /\ HostIdle
    /\ arg \in [statement : EditStatements, message : EditOperations]
    /\ res = NoStatement
    /\ pc = "edit"

ApplyOperation ==
    /\ pc = "edit"
    /\ res' = Operation(arg.statement, arg.message)
    /\ pc' = "edited"
    /\ UNCHANGED <<arg, hostVars>>

NextEdit == ApplyOperation

SpecEdit == InitEdit /\ [][NextEdit]_vars

\* array without its element of the 0-based index, the others in their order
Dropped(array, index) ==
    [j \in 1..(Len(array) - 1) |-> IF j <= index THEN array[j] ELSE array[j + 1]]

\* C25: deleteColumn on an Insert with a column index below the number of
\* columns takes away the name of that column and the field of that column
\* of every row, and keeps the others in their order; with an index that is
\* not below the number of columns it leaves columns and rows as they are
C25_DeleteColumn ==
    (pc = "edited" /\ arg.message.type = "deleteColumn" /\ arg.statement.type = "insert") =>
        IF arg.message.columnIndex < Len(arg.statement.columns)
        THEN /\ res.columns = Dropped(arg.statement.columns, arg.message.columnIndex)
             /\ Len(res.values) = Len(arg.statement.values)
             /\ \A i \in 1..Len(res.values) :
                   res.values[i] = Dropped(arg.statement.values[i], arg.message.columnIndex)
        ELSE /\ res.columns = arg.statement.columns
             /\ res.values = arg.statement.values

\* the first of two columns has been taken from an Insert of two rows
C25_Witness ==
    /\ pc = "edited"
    /\ arg.message.type = "deleteColumn"
    /\ arg.message.columnIndex = 0
    /\ arg.statement.type = "insert"
    /\ arg.statement.columns = << <<"a">>, <<"b">> >>
    /\ res.columns = << <<"b">> >>
    /\ res.values = << <<Str(<<"x">>)>>, <<Str(<<"y">>)>> >>

\* C26: every edit operation keeps the rows of an Insert as wide as its
\* columns: after cellEdit, addRow, deleteRow, addColumn, deleteColumn or
\* editColumnName with any indices of the message, every row of the Insert
\* that goes to _generateSQLFromData has exactly columns.length values
C26_RowWidth ==
    (pc = "edited" /\ res.type = "insert") =>
        \A i \in 1..Len(res.values) : Len(res.values[i]) = Len(res.columns)

-----------------------------------------------------------------------------
(* The answer to ready                                                      *)

\* C28: the host answers every ready that it receives while an SQL document
\* is current or active with an updateData that carries the parse of that
\* document, also when the text of the document is the text that
\* updateWebview has seen last
C28_ReadyAnswered ==
    last.msg.type = "ready" =>
        last.posted = <<[type |-> "updateData", data |-> parseSQL(last.before)]>>

-----------------------------------------------------------------------------
(* Edit messages that cannot be applied                                     *)

\* the message at the head of hostQ is an edit message that the handler can
\* apply: there is a current document, its parse succeeds and the message
\* names one of its statements
Applicable(parsedData) ==
    /\ currentDocument # "none"
    /\ parsedData.success
    /\ Head(hostQ).statementIndex < Len(parsedData.statements)

\* C29: an edit message that cannot be applied writes nothing: without a
\* current document, with a parse that reports failure or with a
\* statementIndex that names no statement of the parse, the handler returns
\* without a call of _updateSQLFile and the text of the document is as before
C29_NoWriteWhenNotApplicable ==
    [][(/\ hostQ # <<>>
        /\ hostQ' = Tail(hostQ)
        /\ Head(hostQ).type # "ready"
        /\ ~Applicable(parseSQL(getText)))
          => (pending' = pending /\ doc' = doc /\ ~last'.wrote)]_vars

\* an edit message for the second statement of a document of one statement
\* has been handled: nothing is handed to applyEdit and the text is as it was
C29_Witness ==
    /\ last.msg.type \in {"cellEdit", "addRow", "deleteRow", "addColumn", "deleteColumn",
                          "editColumnName"}
    /\ last.msg.statementIndex = 1
    /\ Len(parseSQL(last.before).statements) = 1
    /\ ~last.wrote
    /\ pending = <<>>
    /\ doc = last.before
    /\ hostQ = <<>>

-----------------------------------------------------------------------------
(* The literals of _formatSQLValue                                          *)

RECURSIVE QuotesPaired(_)
\* every single quote of s is one of a pair of adjacent quotes
QuotesPaired(s) ==
    IF s = <<>> THEN TRUE
    ELSE IF Head(s) = Q
         THEN Len(s) >= 2 /\ s[2] = Q /\ QuotesPaired(Tail(Tail(s)))
    ELSE QuotesPaired(Tail(s))

\* one SQL literal: NULL, TRUE, FALSE, a number, or a string between single
\* quotes with every single quote of it doubled
WellFormedLiteral(lit) ==
    \/ lit \in {<<"NULL">>, <<"TRUE">>, <<"FALSE">>}
    \/ IsNumericText(lit)
    \/ /\ Len(lit) >= 2
       /\ lit[1] = Q
       /\ lit[Len(lit)] = Q
       /\ QuotesPaired(Inner(lit))

\* C30: for every value that a cell may hold, a text typed by the user
\* included, _formatSQLValue gives one well-formed SQL literal
C30_WellFormedLiteral == pc # "format" => WellFormedLiteral(res.lit)

=============================================================================
